---------------------------- MODULE Spec2Model ----------------------------
(***************************************************************************)
(* A model of the chunking and streaming-assembly pipeline of              *)
(* tts_generator:                                                          *)
(*   - TextChunker.chunk (src/tts_generator/chunker.py), the greedy        *)
(*     single-pass segmenter, with is_chapter_marker and the UTF-8 size    *)
(*     computation it relies on;                                           *)
(*   - StreamingGenerator.generate (src/tts_generator/streaming.py), the   *)
(*     per-chunk synthesize / append / checkpoint loop, run repeatedly     *)
(*     against one output path and one state file.                         *)
(* Text is a sequence of one-character strings, so that strip(), the       *)
(* regular expressions and the UTF-8 length are computed, not assumed.     *)
(***************************************************************************)
EXTENDS Integers, Sequences, FiniteSets, TLC

VARIABLES
    \* ---- TextChunker.chunk ----
    max_bytes,                  \* self.max_bytes
    max_speakers,               \* self.max_speakers
    lines,                      \* the input lines consumed by the for loop so far
    chunks,                     \* chunks emitted so far
    current_lines,
    current_speakers,
    current_size,
    chunk_index,
    current_is_chapter_start,
    current_chapter_title,
    chunk_pc,                   \* "loop" while iterating, "returned" after return
    \* ---- StreamingGenerator.generate ----
    gen_chunks,                 \* the chunks argument: is_chapter_start of each
    state_save_interval,        \* self.state_save_interval
    output_file,                \* the file at self.output_path
    state_file,                 \* the file at self.state_path
    pc,                         \* position of the running generate(), or "idle"
    resume,                     \* the resume argument of the running call
    progress_callback,          \* whether a progress_callback was passed
    start_idx,
    i,                          \* loop variable of "for i, chunk in enumerate"
    audio,                      \* the audio local of the loop body
    stats,                      \* self.stats
    result,                     \* how the last generate() call ended
    raised,                     \* the exception that call left to its caller
    voice_manager,              \* self.voice_manager.assignments
    \* ---- history of the calls, for the properties ----
    runs,                       \* generate() calls made so far
    prev_result,                \* result of the call before the last one
    resumed_from,               \* completed_chunks loaded by this call, else -1
    run_start_output,           \* output_file when this call was made
    synth_calls,                \* chunk indices synthesized by this call
    resumed_voices,             \* voice_assignments loaded by this call, else <<>>
    synth_voices,               \* voices of this call's last synthesis, else <<>>
    \* ---- TTSProvider.generate_single_speaker and retry_with_backoff ----
    provider,                   \* which provider class, or a bare wrapped function
    req_text,                   \* the text argument
    retry,                      \* max_retries, base_delay, max_delay of the wrapper
    prov_pc,                    \* position of the call
    attempt,                    \* loop variable of the wrapper
    last_exception,             \* last_exception of the wrapper
    api_calls,                  \* the network calls made, with how each ended
    delays,                     \* the time.sleep calls made, in seconds
    prov_result,                \* how the call ended for its caller
    \* ---- two processes running generate() on one output path ----
    procs,                      \* the locals of each process's generate() call
    \* ---- a second TextChunker.chunk call on the same input ----
    first_call,                 \* the lines and the result of the first call
    \* ---- VoiceManager ----
    assignments,                \* self.assignments
    used_voices,                \* self._used_voices
    voice_calls,                \* assign_voice and get_voice calls made so far
    last_call,                  \* the last call and the voice it returned
    first_voice,                \* the voice each speaker was first given
    \* ---- crossfade_segments ----
    seg1_len,                   \* len(seg1), in ms
    seg2_len,                   \* len(seg2), in ms
    crossfade_arg,              \* the crossfade_ms argument
    joined,                     \* what the call returned or raised
    \* ---- the audio of the loop body of generate() and _append_audio ----
    crossfade_ms,               \* self.crossfade_ms
    wav_file,                   \* the WAV file at self.output_path
    wav_audio,                  \* the audio local of the loop body
    wav_i,                      \* the index of the chunk in hand
    wav_pc,                     \* position in the loop body
    declared,                   \* the format the provider declared for the chunk
    loaded_ms,                  \* ms of audio the last _append_audio loaded
    \* ---- StreamingGenerator._generate_chunk ----
    req_lines,                  \* chunk.lines
    dialogue,                   \* the dialogue list built so far
    requests,                   \* the calls made on the provider
    \* ---- group_dialogue_by_speaker_pairs, whose lines, max_speakers and
    \*      current_speakers are held in the variables of those names ----
    groups,
    current_group,
    \* ---- TextChunker.chunk on long inputs, sizes in place of texts ----
    pay_lines,                  \* len(current_lines)
    pay_text,                   \* UTF-8 bytes of the texts of current_lines
    pay_chunk                   \* the Chunk the last iteration appended, if any

chunkVars == <<max_bytes, max_speakers, lines, chunks, current_lines,
               current_speakers, current_size, chunk_index,
               current_is_chapter_start, current_chapter_title, chunk_pc>>

genVars == <<gen_chunks, state_save_interval, output_file, state_file, pc,
             resume, progress_callback, start_idx, i, audio, stats, result,
             raised, voice_manager, runs, prev_result, resumed_from,
             run_start_output, synth_calls, resumed_voices, synth_voices>>

provVars == <<provider, req_text, retry, prov_pc, attempt, last_exception,
              api_calls, delays, prov_result>>

replayVars == <<first_call>>

\* The state of the components modelled apart from the pipeline.
voiceVars == <<assignments, used_voices, voice_calls, last_call, first_voice>>

fadeVars == <<seg1_len, seg2_len, crossfade_arg, joined>>

wavVars == <<crossfade_ms, wav_file, wav_audio, wav_i, wav_pc, declared,
             loaded_ms>>

\* The request _generate_chunk builds for one Chunk.
reqVars == <<req_lines, dialogue, requests>>

\* The state of the further components modelled apart.
groupVars == <<groups, current_group>>

payVars == <<pay_lines, pay_text, pay_chunk>>

moreVars == <<reqVars, groupVars, payVars>>

auxVars == <<replayVars, voiceVars, fadeVars, wavVars, moreVars>>

vars == <<chunkVars, genVars, provVars, procs, auxVars>>

---------------------------------------------------------------------------
\* Bounds of the model.

\* Longest input handed to TextChunker.chunk.
MaxLines == 3

\* Longest chunk list handed to StreamingGenerator.generate.
MaxChunks == 2

\* Number of generate() calls made, one after the other, on one output path.
MaxRuns == 3

\* Number of generate() calls made on the chunks that TextChunker.chunk
\* returned, when the two are run one after the other.
MaxPipelineRuns == 2

---------------------------------------------------------------------------
\* The two components are explored apart: while one runs, the other rests in
\* the state below.

\* No StreamingGenerator constructed, nothing on disk.
GenNotStarted ==
    /\ gen_chunks = <<>>
    /\ state_save_interval = 1
    /\ output_file = [exists |-> FALSE, audio |-> <<>>]
    /\ state_file = [exists |-> FALSE, completed_chunks |-> 0,
                     total_chunks |-> 0, voice_assignments |-> <<>>]
    /\ pc = "idle"
    /\ resume = FALSE
    /\ progress_callback = FALSE
    /\ start_idx = 0
    /\ i = 0
    /\ audio = <<>>
    /\ stats = [chunks_completed |-> 0, errors |-> <<>>]
    /\ result = "none"
    /\ raised = "none"
    /\ voice_manager = <<>>
    /\ runs = 0
    /\ prev_result = "none"
    /\ resumed_from = -1
    /\ run_start_output = [exists |-> FALSE, audio |-> <<>>]
    /\ synth_calls = <<>>
    /\ resumed_voices = <<>>
    /\ synth_voices = <<>>

\* No provider call made.
ProvNotStarted ==
    /\ provider = "none"
    /\ req_text = [ascii |-> 0, two_byte |-> 0]
    /\ retry = [max_retries |-> 0, base_delay |-> 0, max_delay |-> 0]
    /\ prov_pc = "rest"
    /\ attempt = 0
    /\ last_exception = [status |-> "none", kind |-> "none", call |-> 0]
    /\ api_calls = <<>>
    /\ delays = <<>>
    /\ prov_result = [status |-> "none", kind |-> "none", call |-> 0]

\* The processes that share an output path.
Procs == {1, 2}

\* A process that has not called generate().
IdleProc == [pc |-> "idle", resume |-> FALSE, start_idx |-> 0, i |-> 0,
             audio |-> <<>>, existing |-> <<>>]

\* No process started.
ProcsNotStarted == procs = [p \in Procs |-> IdleProc]

\* No TextChunker.chunk call has returned yet.
NoFirstCall == [called |-> FALSE, lines |-> <<>>, chunks |-> <<>>]

ReplayNotStarted == first_call = NoFirstCall

\* No call of assign_voice or get_voice yet.
NoVoiceCall == [op |-> "none", speaker |-> "", voice |-> "", returned |-> ""]

\* VoiceManager() as constructed: no assignment, no voice used.
VoicesNotStarted ==
    /\ assignments = <<>>
    /\ used_voices = {}
    /\ voice_calls = 0
    /\ last_call = NoVoiceCall
    /\ first_voice = <<>>

\* crossfade_segments has not returned.
NotJoined == [status |-> "none", len |-> 0, crossfade |-> 0]

\* No crossfade_segments call.
FadeNotStarted ==
    /\ seg1_len = 0
    /\ seg2_len = 0
    /\ crossfade_arg = 0
    /\ joined = NotJoined

\* No audio in hand, no WAV file.
NoAudio == [format |-> <<>>, len |-> 0]
NoWav == [exists |-> FALSE, format |-> <<>>, len |-> 0]

\* No loop body of generate() modelled with its audio.
WavNotStarted ==
    /\ crossfade_ms = 0
    /\ wav_file = NoWav
    /\ wav_audio = NoAudio
    /\ wav_i = 0
    /\ wav_pc = "idle"
    /\ declared = <<>>
    /\ loaded_ms = 0

\* No _generate_chunk call.
RequestNotStarted ==
    /\ req_lines = <<>>
    /\ dialogue = <<>>
    /\ requests = <<>>

\* No group_dialogue_by_speaker_pairs call.
GroupsNotStarted ==
    /\ groups = <<>>
    /\ current_group = <<>>

\* No Chunk appended by the iteration.
NoPayChunk == [lines |-> 0, text |-> 0, speakers |-> {}, size |-> 0]

\* No TextChunker.chunk call on a long input.
PayloadNotStarted ==
    /\ pay_lines = 0
    /\ pay_text = 0
    /\ pay_chunk = NoPayChunk

MoreNotStarted == RequestNotStarted /\ GroupsNotStarted /\ PayloadNotStarted

\* The components modelled apart from the pipeline are at rest.
AuxNotStarted ==
    /\ ReplayNotStarted /\ VoicesNotStarted /\ FadeNotStarted /\ WavNotStarted
    /\ MoreNotStarted

\* No TextChunker.chunk call in progress.
ChunkNotStarted ==
    /\ max_bytes = 0
    /\ max_speakers = 0
    /\ lines = <<>>
    /\ chunks = <<>>
    /\ current_lines = <<>>
    /\ current_speakers = {}
    /\ current_size = 0
    /\ chunk_index = 0
    /\ current_is_chapter_start = FALSE
    /\ current_chapter_title = <<>>
    /\ chunk_pc = "returned"

---------------------------------------------------------------------------
\* Characters and strings.

\* Python's None for Chunk.chapter_title (no text is this sequence: texts are
\* sequences of one-character strings).
None == <<"<None>">>

\* str.isspace() characters used by str.strip() and matched by \s.
Whitespace == {" ", "\t"}

\* Number of bytes of one character under str.encode('utf-8').
Utf8CharLen(c) == IF c \in {"é"} THEN 2 ELSE 1

\* len(s.encode('utf-8'))
RECURSIVE Utf8Len(_)
Utf8Len(s) ==
    IF s = <<>> THEN 0
    ELSE IF Len(s) = 1 THEN Utf8CharLen(s[1])
    ELSE LET half == Len(s) \div 2
         IN Utf8Len(SubSeq(s, 1, half)) + Utf8Len(SubSeq(s, half + 1, Len(s)))

\* Case folding done by re.IGNORECASE, on the letters the inputs use.
Lower(c) ==
    CASE c = "C" -> "c" [] c = "P" -> "p" [] c = "S" -> "s"
      [] c = "I" -> "i" [] c = "V" -> "v" [] c = "X" -> "x"
      [] c = "H" -> "h" [] c = "A" -> "a" [] c = "R" -> "r" [] c = "T" -> "t"
      [] OTHER -> c

Digits == {"0", "1", "2", "3", "4", "5", "6", "7", "8", "9"}
RomanLetters == {"i", "v", "x", "l", "c", "d", "m"}
Letters == {"a", "b", "c", "d", "e", "h", "i", "l", "m", "n", "o", "p", "r",
            "s", "t", "v", "x", "y", "z", "é"}

\* \d
IsDigit(c) == c \in Digits
\* [ivxlcdm] under re.IGNORECASE
IsRoman(c) == Lower(c) \in RomanLetters
\* \w
IsWord(c) == Lower(c) \in Letters \/ c \in Digits \/ c = "_"
\* [*\-=]
IsDividerChar(c) == c \in {"*", "-", "="}

\* str.lstrip() / str.rstrip() / str.strip()
RECURSIVE LStrip(_)
LStrip(s) == IF s # <<>> /\ Head(s) \in Whitespace THEN LStrip(Tail(s)) ELSE s
RECURSIVE RStrip(_)
RStrip(s) ==
    IF s # <<>> /\ s[Len(s)] \in Whitespace
    THEN RStrip(SubSeq(s, 1, Len(s) - 1)) ELSE s
Strip(s) == RStrip(LStrip(s))

\* The alternation (chapter|part|section).
Keywords == {<<"c", "h", "a", "p", "t", "e", "r">>,
             <<"p", "a", "r", "t">>,
             <<"s", "e", "c", "t", "i", "o", "n">>}

\* s begins with keyword kw, ignoring case.
StartsWithKeyword(s, kw) ==
    /\ Len(s) >= Len(kw)
    /\ \A k \in 1..Len(kw) : Lower(s[k]) = kw[k]

\* Position of the first character at or after p that is not whitespace
\* (Len(s) + 1 when there is none): the end of a greedy \s+ begun at p.
RECURSIVE SkipSpace(_, _)
SkipSpace(s, p) ==
    IF p <= Len(s) /\ s[p] \in Whitespace THEN SkipSpace(s, p + 1) ELSE p

\* Position after the greedy \w+ run begun at p.
RECURSIVE SkipWord(_, _)
SkipWord(s, p) ==
    IF p <= Len(s) /\ IsWord(s[p]) THEN SkipWord(s, p + 1) ELSE p

\* ^(chapter|part|section)\s+(\d+|[ivxlcdm]+)   re.IGNORECASE
MatchKeywordNumber(s) ==
    \E kw \in Keywords :
        /\ StartsWithKeyword(s, kw)
        /\ LET q == SkipSpace(s, Len(kw) + 1)
           IN /\ q > Len(kw) + 1
              /\ q <= Len(s)
              /\ (IsDigit(s[q]) \/ IsRoman(s[q]))

\* ^(chapter|part|section)\s+\w+:   re.IGNORECASE
MatchKeywordTitle(s) ==
    \E kw \in Keywords :
        /\ StartsWithKeyword(s, kw)
        /\ LET q == SkipSpace(s, Len(kw) + 1)
               r == SkipWord(s, q)
           IN /\ q > Len(kw) + 1
              /\ r > q
              /\ r <= Len(s)
              /\ s[r] = ":"

\* ^#{1,3}\s+
MatchMarkdownHeader(s) ==
    \E k \in 1..3 :
        /\ Len(s) >= k + 1
        /\ \A j \in 1..k : s[j] = "#"
        /\ s[k + 1] \in Whitespace

\* ^[*\-=]{3,}$
MatchDivider(s) ==
    /\ Len(s) >= 3
    /\ \A j \in 1..Len(s) : IsDividerChar(s[j])

\* CHAPTER_PATTERNS: some pattern matches.
MatchesChapterPattern(s) ==
    \/ MatchKeywordNumber(s)
    \/ MatchKeywordTitle(s)
    \/ MatchMarkdownHeader(s)
    \/ MatchDivider(s)

\* is_chapter_marker(text): the pair (is_chapter, chapter_title).
is_chapter_marker(text) ==
    LET stripped == Strip(text)
    IN IF MatchesChapterPattern(stripped)
       THEN <<TRUE, stripped>>
       ELSE <<FALSE, None>>

---------------------------------------------------------------------------
\* Inputs of TextChunker.chunk.

\* Speaker labels: one, two and three characters, the last with a two-byte
\* character (4 bytes).
Speakers == {<<"A">>, <<"B", "o">>, <<"Z", "o", "é">>}

\* Line texts: plain text, a divider with surrounding whitespace, a keyword
\* heading in mixed case, a markdown heading with a two-byte character, and a
\* two-character near-divider that matches no pattern.
Texts == {<<"H", "i">>,
          <<" ", "-", "-", "-">>,
          <<"P", "a", "r", "t", " ", "2">>,
          <<"#", " ", "é">>,
          <<"-", "-">>}

\* DialogueLine(speaker, text)
DialogueLines == [speaker : Speakers, text : Texts]

\* Values of max_bytes and max_speakers_per_chunk handed to TextChunker.
MaxBytesValues == {0, 8, 11}
MaxSpeakersValues == {0, 1, 2}

---------------------------------------------------------------------------
\* TextChunker.chunk

\* line_size of one line: UTF-8 bytes of text and speaker, plus 2.
LineSize(line) == Utf8Len(line.text) + Utf8Len(line.speaker) + 2

\* NeedsNewChunk without the chapter rule.
NeedsNewChunkNoChapterRule(line) ==
    IF /\ line.speaker \notin current_speakers
       /\ Cardinality(current_speakers) >= max_speakers THEN TRUE
    ELSE IF current_size + LineSize(line) > max_bytes /\ current_lines # <<>>
         THEN TRUE
    ELSE FALSE

\* NeedsNewChunk with the size rule comparing the buffer alone to max_bytes,
\* the incoming line's size left out.
NeedsNewChunkSizeOfBufferOnly(line) ==
    LET is_chapter == is_chapter_marker(line.text)[1]
    IN IF is_chapter /\ current_lines # <<>> THEN TRUE
       ELSE IF /\ line.speaker \notin current_speakers
               /\ Cardinality(current_speakers) >= max_speakers THEN TRUE
       ELSE IF current_size > max_bytes /\ current_lines # <<>> THEN TRUE
       ELSE FALSE

\* needs_new_chunk for the incoming line, given the buffer.
NeedsNewChunk(line) ==
    LET is_chapter == is_chapter_marker(line.text)[1]
    IN IF is_chapter /\ current_lines # <<>> THEN TRUE
       ELSE IF /\ line.speaker \notin current_speakers
               /\ Cardinality(current_speakers) >= max_speakers THEN TRUE
       ELSE IF current_size + LineSize(line) > max_bytes /\ current_lines # <<>>
            THEN TRUE
       ELSE FALSE

\* Chunk(index=chunk_index, lines=current_lines, speakers=..., ...) built from
\* the buffer.
BufferChunk ==
    [index            |-> chunk_index,
     lines            |-> current_lines,
     speakers         |-> current_speakers,
     is_chapter_start |-> current_is_chapter_start,
     chapter_title    |-> current_chapter_title]

\* IndexAfterFlush with the increment forgotten.
IndexAfterFlushNotIncremented == chunk_index

\* chunk_index after a flush.
IndexAfterFlush == chunk_index + 1

\* LinesAfterFlush with the buffer kept instead of cleared.
LinesAfterFlushNotCleared == current_lines

\* current_lines after a flush.
LinesAfterFlush == <<>>

\* ChapterAfterFlush with the chapter tracking left as it was.
ChapterAfterFlushNotReset == <<current_is_chapter_start, current_chapter_title>>

\* (current_is_chapter_start, current_chapter_title) after a flush.
ChapterAfterFlush == <<FALSE, None>>

\* One iteration of "for line in lines": the flush when needed, the append of
\* the line to the buffer, the chapter mark.
ChunkLine(line) ==
    /\ chunk_pc = "loop"
    /\ Len(lines) < MaxLines
    /\ lines' = Append(lines, line)
    /\ LET marker  == is_chapter_marker(line.text)
           flush   == NeedsNewChunk(line)
           lines1  == IF flush THEN LinesAfterFlush ELSE current_lines
           spk1    == IF flush THEN {} ELSE current_speakers
           size1   == IF flush THEN 0 ELSE current_size
           chap1   == IF flush THEN ChapterAfterFlush
                      ELSE <<current_is_chapter_start, current_chapter_title>>
           lines2  == Append(lines1, line)
       IN /\ chunks' = IF flush THEN Append(chunks, BufferChunk) ELSE chunks
          /\ chunk_index' = IF flush THEN IndexAfterFlush ELSE chunk_index
          /\ current_lines' = lines2
          /\ current_speakers' = spk1 \cup {line.speaker}
          /\ current_size' = size1 + LineSize(line)
          /\ IF marker[1] /\ Len(lines2) = 1
             THEN /\ current_is_chapter_start' = TRUE
                  /\ current_chapter_title' = marker[2]
             ELSE /\ current_is_chapter_start' = chap1[1]
                  /\ current_chapter_title' = chap1[2]
    /\ UNCHANGED <<max_bytes, max_speakers, chunk_pc>>
    /\ UNCHANGED <<genVars, provVars, procs, auxVars>>

\* The end of the input: the early return for an empty list, else the flush of
\* the last buffer, and the return.
ChunkReturn ==
    /\ chunk_pc = "loop"
    /\ chunks' = IF lines = <<>> THEN <<>>
                 ELSE IF current_lines # <<>> THEN Append(chunks, BufferChunk)
                 ELSE chunks
    /\ chunk_pc' = "returned"
    /\ UNCHANGED <<max_bytes, max_speakers, lines, current_lines,
                   current_speakers, current_size, chunk_index,
                   current_is_chapter_start, current_chapter_title>>
    /\ UNCHANGED <<genVars, provVars, procs, auxVars>>

\* TextChunker(max_bytes, max_speakers_per_chunk) constructed, chunk() entered.
ChunkEntered ==
    /\ max_bytes \in MaxBytesValues
    /\ max_speakers \in MaxSpeakersValues
    /\ lines = <<>>
    /\ chunks = <<>>
    /\ current_lines = <<>>
    /\ current_speakers = {}
    /\ current_size = 0
    /\ chunk_index = 0
    /\ current_is_chapter_start = FALSE
    /\ current_chapter_title = None
    /\ chunk_pc = "loop"

ChunkNext ==
    \/ \E line \in DialogueLines : ChunkLine(line)
    \/ ChunkReturn

\* TextChunker.chunk on every input of at most MaxLines lines.
ChunkInit == ChunkEntered /\ GenNotStarted /\ ProvNotStarted /\ ProcsNotStarted
    /\ AuxNotStarted
SpecChunk == ChunkInit /\ [][ChunkNext]_vars

---------------------------------------------------------------------------
\* TextChunker.chunk on the size example: lines of one speaker whose texts are
\* 100 one-byte characters each.

\* Length of the texts of the example.
ExampleTextLen == 100

\* "x" * 100, "y" * 100, "z" * 100
ExampleTexts == {[k \in 1..ExampleTextLen |-> c] : c \in {"x", "y", "z"}}

ExampleLines == [speaker : {<<"A">>}, text : ExampleTexts]

\* Chapter markers, short enough to share a Chunk with any line of the
\* example under the default max_bytes.
ExampleMarkerLines ==
    {[speaker |-> <<"A">>, text |-> <<"#", " ", "é">>],
     [speaker |-> <<"B", "o">>, text |-> <<"P", "a", "r", "t", " ", "2">>]}

\* max_bytes of the example, and the default of the constructor.
ExampleMaxBytes == {150, 3500}

\* TextChunker(max_bytes=...) constructed with the default
\* max_speakers_per_chunk, chunk() entered.
ExampleEntered ==
    /\ max_bytes \in ExampleMaxBytes
    /\ max_speakers = 2
    /\ lines = <<>>
    /\ chunks = <<>>
    /\ current_lines = <<>>
    /\ current_speakers = {}
    /\ current_size = 0
    /\ chunk_index = 0
    /\ current_is_chapter_start = FALSE
    /\ current_chapter_title = None
    /\ chunk_pc = "loop"

ExampleNext ==
    \/ \E line \in ExampleLines \cup ExampleMarkerLines : ChunkLine(line)
    \/ ChunkReturn

ExampleInit ==
    ExampleEntered /\ GenNotStarted /\ ProvNotStarted /\ ProcsNotStarted
    /\ AuxNotStarted
SpecExample == ExampleInit /\ [][ExampleNext]_vars

---------------------------------------------------------------------------
\* TextChunker.chunk called twice on the same instance with the same lines.

\* Longest input of the two-call runs.
MaxReplayLines == 2

\* IndexAtEntry with the counter kept from the call before.
IndexAtEntryCarriedOver == chunk_index

\* chunk_index = 0 at the head of chunk().
IndexAtEntry == 0

\* chunk(lines) is called again with the lines of the call that returned: the
\* locals of the new call are initialised, self.max_bytes and
\* self.max_speakers are those of the instance.
ChunkAgain ==
    /\ chunk_pc = "returned"
    /\ ~first_call.called
    /\ first_call' = [called |-> TRUE, lines |-> lines, chunks |-> chunks]
    /\ lines' = <<>>
    /\ chunks' = <<>>
    /\ current_lines' = <<>>
    /\ current_speakers' = {}
    /\ current_size' = 0
    /\ chunk_index' = IndexAtEntry
    /\ current_is_chapter_start' = FALSE
    /\ current_chapter_title' = None
    /\ chunk_pc' = "loop"
    /\ UNCHANGED <<max_bytes, max_speakers>>
    /\ UNCHANGED <<genVars, provVars, procs, voiceVars, fadeVars, wavVars, moreVars>>

\* An iteration of the first call, on any line.
FirstCallLine ==
    /\ ~first_call.called
    /\ Len(lines) < MaxReplayLines
    /\ \E line \in DialogueLines : ChunkLine(line)

\* An iteration of the second call, on the line the first call had at the
\* same position.
SecondCallLine ==
    /\ first_call.called
    /\ Len(lines) < Len(first_call.lines)
    /\ ChunkLine(first_call.lines[Len(lines) + 1])

\* The end of the input of either call.
CallReturn ==
    /\ first_call.called => Len(lines) = Len(first_call.lines)
    /\ ChunkReturn

TwoCallsNext ==
    \/ FirstCallLine
    \/ SecondCallLine
    \/ CallReturn
    \/ ChunkAgain

TwoCallsInit ==
    ChunkEntered /\ GenNotStarted /\ ProvNotStarted /\ ProcsNotStarted
    /\ AuxNotStarted
SpecTwoCalls == TwoCallsInit /\ [][TwoCallsNext]_vars

---------------------------------------------------------------------------
\* VoiceManager.assign_voice and get_voice.

\* Calls made on one VoiceManager.
MaxVoiceCalls == 3

\* The keys of GOOGLE_VOICES, in the order of the dict.
GOOGLE_VOICES ==
    <<"Zephyr", "Puck", "Charon", "Kore", "Fenrir", "Leda", "Orus", "Aoede",
      "Callirrhoe", "Autonoe", "Enceladus", "Iapetus", "Umbriel", "Algieba",
      "Despina", "Erinome", "Algenib", "Rasalgethi", "Laomedeia", "Achernar",
      "Alnilam", "Schedar", "Gacrux", "Pulcherrima", "Achird",
      "Zubenelgenubi", "Vindemiatrix", "Sadachbia", "Sadaltager", "Sulafat">>

DEFAULT_VOICE_ASSIGNMENTS ==
    [s \in {"Provider", "Doctor", "Nurse", "Patient", "Speaker A",
            "Speaker B", "Speaker C", "Speaker D"} |->
        CASE s = "Provider" -> "Charon"
          [] s = "Doctor" -> "Charon"
          [] s = "Nurse" -> "Sulafat"
          [] s = "Patient" -> "Achernar"
          [] s = "Speaker A" -> "Kore"
          [] s = "Speaker B" -> "Puck"
          [] s = "Speaker C" -> "Fenrir"
          [] s = "Speaker D" -> "Leda"]

AUTO_ASSIGN_VOICES ==
    <<"Kore", "Charon", "Sulafat", "Puck", "Aoede", "Achird", "Gacrux",
      "Iapetus", "Leda", "Fenrir">>

\* The speakers of the calls: two roles with the same default voice, and a
\* name without a default.
VoiceSpeakers == {"Provider", "Doctor", "Narrator"}

\* The voice argument of assign_voice when it is falsy (None, or "").
NoVoice == ""

\* The voice arguments of the calls.
VoiceArgs == {NoVoice, "Charon", "Puck"}

\* Positions of the voices of a list that are not in self._used_voices.
Unused(voices) == {k \in 1..Len(voices) : voices[k] \notin used_voices}

\* "for voice in voices: if voice not in self._used_voices": the first one.
FirstUnused(voices) ==
    voices[CHOOSE k \in Unused(voices) : \A j \in Unused(voices) : k <= j]

\* AssignedVoice with an explicit voice replacing the speaker's voice.
AssignedVoiceOverwrites(speaker, voice) ==
    IF voice # NoVoice THEN voice
    ELSE IF speaker \in DOMAIN assignments THEN assignments[speaker]
    ELSE IF /\ speaker \in DOMAIN DEFAULT_VOICE_ASSIGNMENTS
            /\ DEFAULT_VOICE_ASSIGNMENTS[speaker] \notin used_voices
    THEN DEFAULT_VOICE_ASSIGNMENTS[speaker]
    ELSE IF Unused(AUTO_ASSIGN_VOICES) # {} THEN FirstUnused(AUTO_ASSIGN_VOICES)
    ELSE IF Unused(GOOGLE_VOICES) # {} THEN FirstUnused(GOOGLE_VOICES)
    ELSE AUTO_ASSIGN_VOICES[1]

\* The voice assign_voice(speaker, voice) returns.
AssignedVoice(speaker, voice) ==
    IF speaker \in DOMAIN assignments THEN assignments[speaker]
    ELSE IF voice # NoVoice THEN voice
    ELSE IF /\ speaker \in DOMAIN DEFAULT_VOICE_ASSIGNMENTS
            /\ DEFAULT_VOICE_ASSIGNMENTS[speaker] \notin used_voices
    THEN DEFAULT_VOICE_ASSIGNMENTS[speaker]
    ELSE IF Unused(AUTO_ASSIGN_VOICES) # {} THEN FirstUnused(AUTO_ASSIGN_VOICES)
    ELSE IF Unused(GOOGLE_VOICES) # {} THEN FirstUnused(GOOGLE_VOICES)
    ELSE AUTO_ASSIGN_VOICES[1]

\* self._used_voices after assign_voice(speaker, voice): the voice is added
\* on every path that assigns one but the last resort.
UsedAfterAssign(speaker, voice) ==
    IF speaker \in DOMAIN assignments THEN used_voices
    ELSE IF \/ voice # NoVoice
            \/ /\ speaker \in DOMAIN DEFAULT_VOICE_ASSIGNMENTS
               /\ DEFAULT_VOICE_ASSIGNMENTS[speaker] \notin used_voices
            \/ Unused(AUTO_ASSIGN_VOICES) # {}
            \/ Unused(GOOGLE_VOICES) # {}
    THEN used_voices \cup {AssignedVoice(speaker, voice)}
    ELSE used_voices

\* f with speaker mapped to voice.
WithVoice(f, speaker, voice) ==
    [s \in DOMAIN f \cup {speaker} |-> IF s = speaker THEN voice ELSE f[s]]

\* The effect of assign_voice(speaker, voice), called as op.
VoiceCall(op, speaker, voice) ==
    /\ voice_calls < MaxVoiceCalls
    /\ voice_calls' = voice_calls + 1
    /\ assignments' = WithVoice(assignments, speaker,
                                AssignedVoice(speaker, voice))
    /\ used_voices' = UsedAfterAssign(speaker, voice)
    /\ last_call' = [op |-> op, speaker |-> speaker, voice |-> voice,
                     returned |-> AssignedVoice(speaker, voice)]
    /\ first_voice' = IF speaker \in DOMAIN first_voice THEN first_voice
                      ELSE WithVoice(first_voice, speaker,
                                     AssignedVoice(speaker, voice))
    /\ UNCHANGED <<chunkVars, genVars, provVars, procs, replayVars, fadeVars,
                   wavVars, moreVars>>

\* assign_voice(speaker, voice)
AssignVoice(speaker, voice) == VoiceCall("assign_voice", speaker, voice)

\* get_voice(speaker): assign_voice(speaker) when the speaker has no voice,
\* else the voice of self.assignments.
GetVoice(speaker) == VoiceCall("get_voice", speaker, NoVoice)

VoicesNext ==
    \/ \E speaker \in VoiceSpeakers, voice \in VoiceArgs :
          AssignVoice(speaker, voice)
    \/ \E speaker \in VoiceSpeakers : GetVoice(speaker)

VoicesInit ==
    VoicesNotStarted /\ ChunkNotStarted /\ GenNotStarted /\ ProvNotStarted
    /\ ProcsNotStarted /\ ReplayNotStarted /\ FadeNotStarted /\ WavNotStarted
    /\ MoreNotStarted
SpecVoices == VoicesInit /\ [][VoicesNext]_vars

---------------------------------------------------------------------------
\* StreamingGenerator (src/tts_generator/streaming.py)
\*
\* The output file is the sequence of audio pieces appended to it; a piece
\* records the chunk it was synthesized from and the silence prepended to it.
\* generate() is cut at the points where a KeyboardInterrupt can fall: between
\* two statements of the loop body.  An exception raised by a statement is
\* raised before the statement has had an effect (a failed export that leaves a
\* truncated file is not modelled).

\* Values of state_save_interval given to the constructor.
SaveIntervals == {1, 2}

\* len(chunks)
Total == Len(gen_chunks)

\* An absent file.
NoOutput == [exists |-> FALSE, audio |-> <<>>]
NoState == [exists |-> FALSE, completed_chunks |-> 0, total_chunks |-> 0,
            voice_assignments |-> <<>>]

\* The speakers of the chunk list handed to generate().
GenSpeakers == {"Narrator"}

\* The --voices option of a process: absent, or a voice for the speaker.
ManualAssignments == {<<>>} \cup [GenSpeakers -> {"Charon"}]

\* VoiceManager.assignments after main() has applied the manual assignments
\* and assigned every speaker: the manual voice, else the first unused voice
\* of AUTO_ASSIGN_VOICES.
AssignVoices(manual) ==
    [s \in GenSpeakers |-> IF s \in DOMAIN manual THEN manual[s] ELSE "Kore"]

\* The JSON written by _save_state(completed, total).
SavedState(completed, total) ==
    [exists |-> TRUE, completed_chunks |-> completed, total_chunks |-> total,
     voice_assignments |-> voice_manager]

\* StartIndex with the saved completed_chunks ignored.
StartIndexIgnoresState(r) == 0

\* start_idx chosen at the head of generate(resume=r).
StartIndex(r) ==
    IF r /\ state_file.exists THEN state_file.completed_chunks ELSE 0

\* OutputAfterStart with the old output never removed.
OutputAfterStartKeepsOutput(r) == output_file

\* The output file after the head of generate(resume=r): kept when resuming
\* from a state file, else unlinked.
OutputAfterStart(r) ==
    IF r /\ state_file.exists THEN output_file ELSE NoOutput

\* pc at the head of the iteration for index j of a list of n chunks: the loop
\* body, or past the loop.
LoopHead(j, n) == IF j < n THEN "synth" ELSE "cleanup"

\* NoChunks with the empty list let through.
NoChunksNeverRejects(cs) == FALSE

\* if not chunks
NoChunks(cs) == Len(cs) = 0

\* generate(chunks, progress_callback, resume=r) is called on a
\* StreamingGenerator freshly constructed by a process started with the manual
\* voice assignments manual: the empty-list check, the load of the state file
\* or the removal of the old output, and the entry into the loop.
Generate(r, cb, manual, cs) ==
    /\ pc = "idle"
    /\ runs < MaxRuns
    /\ runs' = runs + 1
    /\ gen_chunks' = cs
    /\ voice_manager' = AssignVoices(manual)
    /\ synth_voices' = <<>>
    /\ prev_result' = result
    /\ resume' = r
    /\ progress_callback' = cb
    /\ stats' = [chunks_completed |-> 0, errors |-> <<>>]
    /\ audio' = <<>>
    /\ synth_calls' = <<>>
    /\ run_start_output' = output_file
    /\ IF NoChunks(cs)
       THEN \* raise ValueError("No chunks provided")
            /\ result' = "rejected"
            /\ raised' = "ValueError"
            /\ resumed_from' = -1
            /\ resumed_voices' = <<>>
            /\ UNCHANGED <<pc, start_idx, i, output_file>>
       ELSE /\ result' = "running"
            /\ raised' = "none"
            /\ start_idx' = StartIndex(r)
            /\ resumed_from' = IF r /\ state_file.exists
                               THEN state_file.completed_chunks ELSE -1
            /\ resumed_voices' = IF r /\ state_file.exists
                                 THEN state_file.voice_assignments ELSE <<>>
            /\ output_file' = OutputAfterStart(r)
            /\ i' = StartIndex(r)
            /\ pc' = LoopHead(StartIndex(r), Len(cs))
    /\ UNCHANGED <<state_save_interval, state_file>>
    /\ UNCHANGED <<chunkVars, provVars, procs, auxVars>>

\* audio = self._generate_chunk(chunk) returns.
Synthesize ==
    /\ pc = "synth"
    /\ audio' = [chunk |-> i, pause |-> "none"]
    /\ synth_voices' = voice_manager
    /\ synth_calls' = Append(synth_calls, i)
    /\ pc' = "normalize"
    /\ UNCHANGED <<gen_chunks, state_save_interval, output_file, state_file,
                   resume, progress_callback, start_idx, i, stats, result,
                   runs, prev_result, resumed_from, run_start_output>>
    /\ UNCHANGED <<raised, voice_manager, resumed_voices>>
    /\ UNCHANGED <<chunkVars, provVars, procs, auxVars>>

\* PauseBefore with pause_ms before chapter starts too.
PauseBeforeIgnoresChapter(j) == IF j > 0 THEN "pause" ELSE "none"

\* The silence put before chunk j's audio.
PauseBefore(j) ==
    IF j > 0
    THEN IF gen_chunks[j + 1] THEN "chapter" ELSE "pause"
    ELSE "none"

\* normalize_audio(audio), then the silence prepended when i > 0.
Normalize ==
    /\ pc = "normalize"
    /\ audio' = [audio EXCEPT !.pause = PauseBefore(i)]
    /\ pc' = "append"
    /\ UNCHANGED <<gen_chunks, state_save_interval, output_file, state_file,
                   resume, progress_callback, start_idx, i, stats, result,
                   runs, prev_result, resumed_from, run_start_output,
                   synth_calls>>
    /\ UNCHANGED <<raised, voice_manager, resumed_voices, synth_voices>>
    /\ UNCHANGED <<chunkVars, provVars, procs, auxVars>>

\* The output file after _append_audio(a): a new file holding a alone when
\* there is none, else the existing audio followed by a.
AppendedOutput(a) ==
    IF ~output_file.exists
    THEN [exists |-> TRUE, audio |-> <<a>>]
    ELSE [exists |-> TRUE, audio |-> Append(output_file.audio, a)]

\* self._append_audio(audio, use_crossfade=(i > 0))
AppendAudio ==
    /\ pc = "append"
    /\ output_file' = AppendedOutput(audio)
    /\ pc' = "stats"
    /\ UNCHANGED <<gen_chunks, state_save_interval, state_file, resume,
                   progress_callback, start_idx, i, audio, stats, result,
                   runs, prev_result, resumed_from, run_start_output,
                   synth_calls>>
    /\ UNCHANGED <<raised, voice_manager, resumed_voices, synth_voices>>
    /\ UNCHANGED <<chunkVars, provVars, procs, auxVars>>

\* self.stats["chunks_completed"] = i + 1
UpdateStats ==
    /\ pc = "stats"
    /\ stats' = [stats EXCEPT !.chunks_completed = i + 1]
    /\ pc' = "save"
    /\ UNCHANGED <<gen_chunks, state_save_interval, output_file, state_file,
                   resume, progress_callback, start_idx, i, audio, result,
                   runs, prev_result, resumed_from, run_start_output,
                   synth_calls>>
    /\ UNCHANGED <<raised, voice_manager, resumed_voices, synth_voices>>
    /\ UNCHANGED <<chunkVars, provVars, procs, auxVars>>

\* ShouldSave with a checkpoint after every chunk.
ShouldSaveEveryChunk(j) == TRUE

\* should_save after chunk j was appended.
ShouldSave(j) ==
    \/ (j + 1) % state_save_interval = 0
    \/ (j + 1) = Total

\* if should_save: self._save_state(i + 1, len(chunks))
SaveState ==
    /\ pc = "save"
    /\ state_file' = IF ShouldSave(i) THEN SavedState(i + 1, Total)
                     ELSE state_file
    /\ pc' = "callback"
    /\ UNCHANGED <<gen_chunks, state_save_interval, output_file, resume,
                   progress_callback, start_idx, i, audio, stats, result,
                   runs, prev_result, resumed_from, run_start_output,
                   synth_calls>>
    /\ UNCHANGED <<raised, voice_manager, resumed_voices, synth_voices>>
    /\ UNCHANGED <<chunkVars, provVars, procs, auxVars>>

\* ProgressCallback with the loop going round on the same chunk.
ProgressCallbackRepeatsChunk ==
    /\ pc = "callback"
    /\ i' = i
    /\ pc' = "synth"
    /\ UNCHANGED <<gen_chunks, state_save_interval, output_file, state_file,
                   resume, progress_callback, start_idx, audio, stats, result,
                   runs, prev_result, resumed_from, run_start_output,
                   synth_calls>>
    /\ UNCHANGED <<raised, voice_manager, resumed_voices, synth_voices>>
    /\ UNCHANGED <<chunkVars, provVars, procs, auxVars>>

\* if progress_callback: progress_callback(...) returns; the loop goes on to
\* the next chunk, or ends.
ProgressCallback ==
    /\ pc = "callback"
    /\ i' = i + 1
    /\ pc' = LoopHead(i + 1, Total)
    /\ UNCHANGED <<gen_chunks, state_save_interval, output_file, state_file,
                   resume, progress_callback, start_idx, audio, stats, result,
                   runs, prev_result, resumed_from, run_start_output,
                   synth_calls>>
    /\ UNCHANGED <<raised, voice_manager, resumed_voices, synth_voices>>
    /\ UNCHANGED <<chunkVars, provVars, procs, auxVars>>

\* The statements of the loop body that can raise an Exception, given where
\* the run stands.
CanRaise ==
    \/ pc \in {"synth", "normalize", "append"}
    \/ pc = "save" /\ ShouldSave(i)
    \/ pc = "callback" /\ progress_callback

\* completed_chunks that the except block writes for the failing index j.
CompletedOnError(j) == j

\* An Exception is raised by the statement at pc: the except block records the
\* error, saves the state and re-raises it.
RaiseInLoop ==
    /\ CanRaise
    /\ stats' = [stats EXCEPT !.errors = Append(@, [chunk |-> i, step |-> pc])]
    /\ state_file' = SavedState(CompletedOnError(i), Total)
    /\ result' = "failed"
    /\ pc' = "idle"
    /\ UNCHANGED <<gen_chunks, state_save_interval, output_file, resume,
                   progress_callback, start_idx, i, audio, runs, prev_result,
                   resumed_from, run_start_output, synth_calls>>
    /\ raised' = pc
    /\ UNCHANGED <<voice_manager, resumed_voices, synth_voices>>
    /\ UNCHANGED <<chunkVars, provVars, procs, auxVars>>

\* An Exception is raised by the statement at pc, and the _save_state call of
\* the except block raises in its turn (it is not guarded): no state is
\* written and the exception of _save_state is the one the caller gets.
RaiseInHandler ==
    /\ CanRaise
    /\ stats' = [stats EXCEPT !.errors = Append(@, [chunk |-> i, step |-> pc])]
    /\ result' = "failed"
    /\ raised' = "save_state_in_handler"
    /\ pc' = "idle"
    /\ UNCHANGED <<gen_chunks, state_save_interval, output_file, state_file,
                   resume, progress_callback, start_idx, i, audio, runs,
                   prev_result, resumed_from, run_start_output, synth_calls,
                   voice_manager, resumed_voices, synth_voices>>
    /\ UNCHANGED <<chunkVars, provVars, procs, auxVars>>

\* StateAfterCleanup with the state file left in place.
StateAfterCleanupKeepsFile == state_file

\* The state file after _cleanup_state().
StateAfterCleanup == NoState

\* self._cleanup_state(); return self.output_path
CleanupState ==
    /\ pc = "cleanup"
    /\ state_file' = StateAfterCleanup
    /\ result' = "completed"
    /\ pc' = "idle"
    /\ UNCHANGED <<gen_chunks, state_save_interval, output_file, resume,
                   progress_callback, start_idx, i, audio, stats, runs,
                   prev_result, resumed_from, run_start_output, synth_calls>>
    /\ UNCHANGED <<raised, voice_manager, resumed_voices, synth_voices>>
    /\ UNCHANGED <<chunkVars, provVars, procs, auxVars>>

\* The points of a running generate() at which a KeyboardInterrupt can fall.
InterruptPoints == {"synth", "normalize", "append", "stats", "save",
                    "callback", "cleanup"}

\* KeyboardInterrupt: not an Exception, so the except block of the loop is
\* skipped and main() reports "Interrupted. Use --resume to continue."
Interrupt ==
    /\ pc \in InterruptPoints
    /\ result' = "interrupted"
    /\ pc' = "idle"
    /\ UNCHANGED <<gen_chunks, state_save_interval, output_file, state_file,
                   resume, progress_callback, start_idx, i, audio, stats,
                   runs, prev_result, resumed_from, run_start_output,
                   synth_calls>>
    /\ raised' = "KeyboardInterrupt"
    /\ UNCHANGED <<voice_manager, resumed_voices, synth_voices>>
    /\ UNCHANGED <<chunkVars, provVars, procs, auxVars>>

\* A StreamingGenerator for a list of at most MaxChunks chunks, nothing on
\* disk yet.
GenInit ==
    /\ gen_chunks \in UNION {[1..n -> BOOLEAN] : n \in 0..MaxChunks}
    /\ state_save_interval \in SaveIntervals
    /\ output_file = NoOutput
    /\ state_file = NoState
    /\ pc = "idle"
    /\ resume = FALSE
    /\ progress_callback = FALSE
    /\ start_idx = 0
    /\ i = 0
    /\ audio = <<>>
    /\ stats = [chunks_completed |-> 0, errors |-> <<>>]
    /\ result = "none"
    /\ raised = "none"
    /\ voice_manager = <<>>
    /\ runs = 0
    /\ prev_result = "none"
    /\ resumed_from = -1
    /\ run_start_output = NoOutput
    /\ synth_calls = <<>>
    /\ resumed_voices = <<>>
    /\ synth_voices = <<>>

Init == GenInit /\ ChunkNotStarted /\ ProvNotStarted /\ ProcsNotStarted
    /\ AuxNotStarted

Next ==
    \/ \E r \in BOOLEAN, cb \in BOOLEAN, manual \in ManualAssignments,
          cs \in {gen_chunks, <<>>} :
          Generate(r, cb, manual, cs)
    \/ Synthesize
    \/ Normalize
    \/ AppendAudio
    \/ UpdateStats
    \/ SaveState
    \/ ProgressCallback
    \/ RaiseInLoop
    \/ RaiseInHandler
    \/ CleanupState
    \/ Interrupt

\* Up to MaxRuns calls of generate(), one after the other, on the same output
\* path; each call is given the chunk list of the call before, or an empty
\* list.
Spec == Init /\ [][Next]_vars

---------------------------------------------------------------------------
\* run_audiobook_mode (src/tts_generator/cli.py): the chunks that
\* TextChunker.chunk returns are handed to StreamingGenerator.generate.

\* What generate() reads of a chunk list: is_chapter_start of each chunk.
ChapterFlags(cs) == [k \in 1..Len(cs) |-> cs[k].is_chapter_start]

\* chunks = chunker.chunk(lines) has returned and the StreamingGenerator is
\* constructed for them.  The chunker's variables are dead from here on and
\* go back to their rest values; chunk lists longer than MaxChunks are not
\* followed into generate().
HandOver ==
    /\ chunk_pc = "returned"
    /\ Len(chunks) <= MaxChunks
    /\ gen_chunks' = ChapterFlags(chunks)
    /\ state_save_interval' \in SaveIntervals
    /\ max_bytes' = 0
    /\ max_speakers' = 0
    /\ lines' = <<>>
    /\ chunks' = <<>>
    /\ current_lines' = <<>>
    /\ current_speakers' = {}
    /\ current_size' = 0
    /\ chunk_index' = 0
    /\ current_is_chapter_start' = FALSE
    /\ current_chapter_title' = <<>>
    /\ chunk_pc' = "handed"
    /\ UNCHANGED <<output_file, state_file, pc, resume, progress_callback,
                   start_idx, i, audio, stats, result, raised, voice_manager,
                   runs, prev_result, resumed_from, run_start_output,
                   synth_calls, resumed_voices, synth_voices>>
    /\ UNCHANGED <<provVars, procs, auxVars>>

PipelineNext ==
    \/ ChunkNext
    \/ HandOver
    \/ chunk_pc = "handed" /\ (pc = "idle" => runs < MaxPipelineRuns) /\ Next

\* TextChunker.chunk on every input of at most MaxLines lines, then up to
\* MaxPipelineRuns calls of generate() on the chunks it returned.
SpecPipeline == ChunkInit /\ [][PipelineNext]_vars

---------------------------------------------------------------------------
\* The pipeline on configurations of the chunker that include degenerate
\* ones: TextChunker.__init__ and StreamingGenerator.__init__ store their
\* arguments as they come.

\* max_bytes and max_speakers_per_chunk of the configurations: the values of
\* run_audiobook_mode, zero and a negative one.
ConfigMaxBytes == {-1, 0, 3500}
ConfigMaxSpeakers == {-1, 0, 2}

\* The lines of the input.
ConfigLines == [speaker : {<<"A">>, <<"B", "o">>}, text : {<<"H", "i">>}]

\* Longest input of these runs.
MaxConfigLines == 2

\* TextChunker(max_bytes, max_speakers_per_chunk) constructed, chunk() entered.
ConfigEntered ==
    /\ max_bytes \in ConfigMaxBytes
    /\ max_speakers \in ConfigMaxSpeakers
    /\ lines = <<>>
    /\ chunks = <<>>
    /\ current_lines = <<>>
    /\ current_speakers = {}
    /\ current_size = 0
    /\ chunk_index = 0
    /\ current_is_chapter_start = FALSE
    /\ current_chapter_title = None
    /\ chunk_pc = "loop"

\* An iteration of chunk() on a line of the input.
ConfigChunkLine ==
    /\ Len(lines) < MaxConfigLines
    /\ \E line \in ConfigLines : ChunkLine(line)

\* The chunks are handed to a StreamingGenerator; the TextChunker keeps its
\* configuration.
ConfigHandOver ==
    /\ chunk_pc = "returned"
    /\ gen_chunks' = ChapterFlags(chunks)
    /\ state_save_interval' \in SaveIntervals
    /\ chunk_pc' = "handed"
    /\ UNCHANGED <<max_bytes, max_speakers, lines, chunks, current_lines,
                   current_speakers, current_size, chunk_index,
                   current_is_chapter_start, current_chapter_title>>
    /\ UNCHANGED <<output_file, state_file, pc, resume, progress_callback,
                   start_idx, i, audio, stats, result, raised, voice_manager,
                   runs, prev_result, resumed_from, run_start_output,
                   synth_calls, resumed_voices, synth_voices>>
    /\ UNCHANGED <<provVars, procs, auxVars>>

\* One call of generate() on the chunks handed over.
ConfigGenerate == chunk_pc = "handed" /\ (pc = "idle" => runs = 0) /\ Next

ConfigNext ==
    \/ ConfigChunkLine
    \/ ChunkReturn
    \/ ConfigHandOver
    \/ ConfigGenerate

ConfigInit ==
    ConfigEntered /\ GenNotStarted /\ ProvNotStarted /\ ProcsNotStarted
    /\ AuxNotStarted
SpecConfig == ConfigInit /\ [][ConfigNext]_vars

---------------------------------------------------------------------------
\* The providers (src/tts_generator/providers) and retry_with_backoff.
\*
\* A text is the number of its one-byte characters and of its two-byte
\* characters; a network call is recorded with the number of bytes of the text
\* it carried and with how it ended.

\* Largest max_retries given to retry_with_backoff.
MaxRetries == 3

\* GoogleTTSProvider.max_text_length()
GoogleMaxTextLength == 4000

\* ElevenLabsProvider.max_text_length()
ElevenLabsMaxTextLength == 5000

\* @retry_with_backoff(max_retries=3, base_delay=1.0, max_delay=30.0)
GoogleMaxRetries == 3
GoogleBaseDelay == 1
GoogleMaxDelay == 30

GoogleRetry == [max_retries |-> GoogleMaxRetries, base_delay |-> GoogleBaseDelay,
                max_delay |-> GoogleMaxDelay]

\* Arguments given to retry_with_backoff when it wraps a function.
RetryConfigs ==
    [max_retries : 0..MaxRetries, base_delay : {1, 8}, max_delay : {4, 30}]

Providers == {"google", "elevenlabs"}

\* max_text_length() of provider p.
MaxTextLength(p) ==
    IF p = "google" THEN GoogleMaxTextLength ELSE ElevenLabsMaxTextLength

\* The texts given to generate_single_speaker: around each provider's limit,
\* in one-byte characters and with two-byte characters among them.
RequestTexts ==
    {[ascii |-> a, two_byte |-> 0] :
        a \in {2, GoogleMaxTextLength, GoogleMaxTextLength + 1,
               ElevenLabsMaxTextLength, ElevenLabsMaxTextLength + 1}}
    \cup {[ascii |-> GoogleMaxTextLength - 1000, two_byte |-> b] : b \in {500, 501}}

\* len(t.encode('utf-8'))
Utf8Bytes(t) == t.ascii + 2 * t.two_byte

\* How a network call can end: a response with audio, a response without
\* audio, a transient failure (timeout, rate limit, server error), a failed
\* authentication.  The last two are raised as subclasses of Exception.
CallReturns == {"audio", "no_audio"}
CallRaises == {"transient", "auth"}

NoException == [status |-> "none", kind |-> "none", call |-> 0]

RECURSIVE Pow2(_)
Pow2(k) == IF k = 0 THEN 1 ELSE 2 * Pow2(k - 1)

Min(a, b) == IF a <= b THEN a ELSE b

\* Delay with no cap.
DelayUncapped(k) == retry.base_delay * Pow2(k)

\* delay = min(base_delay * (2 ** attempt), max_delay)
Delay(k) == Min(retry.base_delay * Pow2(k), retry.max_delay)

\* The head of generate_single_speaker(text, voice), up to the network call:
\* GoogleTTSProvider checks the length of the text, ElevenLabsProvider goes
\* straight to the call.
GenerateSingleSpeaker ==
    /\ prov_pc = "validate"
    /\ IF provider = "google"
       THEN IF Utf8Bytes(req_text) > MaxTextLength(provider)
            THEN /\ prov_pc' = "raised"
                 /\ prov_result' = [status |-> "raised", kind |-> "ValueError",
                                    call |-> 0]
            ELSE /\ prov_pc' = "call"
                 /\ UNCHANGED prov_result
       ELSE /\ prov_pc' = "direct_call"
            /\ UNCHANGED prov_result
    /\ UNCHANGED <<provider, req_text, retry, attempt, last_exception, api_calls,
                   delays>>
    /\ UNCHANGED <<chunkVars, genVars, procs, auxVars>>

\* The wrapper's loop as it would be with the extraction of the audio inside
\* the wrapped function: a response without audio is one more Exception.
WrappedCallExtractsInside(outcome) ==
    /\ prov_pc = "call"
    /\ api_calls' = Append(api_calls, [outcome |-> outcome,
                                       text_bytes |-> Utf8Bytes(req_text),
                                       attempt |-> attempt])
    /\ IF outcome = "audio"
       THEN /\ IF provider = "google"
               THEN prov_pc' = "extract" /\ UNCHANGED prov_result
               ELSE /\ prov_pc' = "returned"
                    /\ prov_result' = [status |-> "returned", kind |-> outcome,
                                       call |-> Len(api_calls) + 1]
            /\ UNCHANGED <<attempt, last_exception, delays>>
       ELSE /\ last_exception' = [status |-> "raised",
                                  kind |-> IF outcome = "no_audio"
                                           THEN "ValueError" ELSE outcome,
                                  call |-> Len(api_calls) + 1]
            /\ IF attempt < retry.max_retries
               THEN /\ delays' = Append(delays, Delay(attempt))
                    /\ attempt' = attempt + 1
                    /\ UNCHANGED <<prov_pc, prov_result>>
               ELSE /\ prov_pc' = "raised"
                    /\ prov_result' = last_exception'
                    /\ UNCHANGED <<attempt, delays>>
    /\ UNCHANGED <<provider, req_text, retry>>
    /\ UNCHANGED <<chunkVars, genVars, procs, auxVars>>

\* One round of the wrapper's loop: func is called and ends with outcome; a
\* return ends the wrapper, an Exception is kept as last_exception and is
\* followed by the sleep when attempts are left, else by the raise after the
\* loop.
WrappedCall(outcome) ==
    /\ prov_pc = "call"
    /\ api_calls' = Append(api_calls, [outcome |-> outcome,
                                       text_bytes |-> Utf8Bytes(req_text),
                                       attempt |-> attempt])
    /\ IF outcome \in CallReturns
       THEN /\ IF provider = "google"
               THEN prov_pc' = "extract" /\ UNCHANGED prov_result
               ELSE /\ prov_pc' = "returned"
                    /\ prov_result' = [status |-> "returned", kind |-> outcome,
                                       call |-> Len(api_calls) + 1]
            /\ UNCHANGED <<attempt, last_exception, delays>>
       ELSE /\ last_exception' = [status |-> "raised", kind |-> outcome,
                                  call |-> Len(api_calls) + 1]
            /\ IF attempt < retry.max_retries
               THEN /\ delays' = Append(delays, Delay(attempt))
                    /\ attempt' = attempt + 1
                    /\ UNCHANGED <<prov_pc, prov_result>>
               ELSE /\ prov_pc' = "raised"
                    /\ prov_result' = last_exception'
                    /\ UNCHANGED <<attempt, delays>>
    /\ UNCHANGED <<provider, req_text, retry>>
    /\ UNCHANGED <<chunkVars, genVars, procs, auxVars>>

\* ElevenLabsProvider: self.client.text_to_speech.convert(...) and the join of
\* what it yields, with no wrapper around them.
DirectCall(outcome) ==
    /\ prov_pc = "direct_call"
    /\ api_calls' = Append(api_calls, [outcome |-> outcome,
                                       text_bytes |-> Utf8Bytes(req_text),
                                       attempt |-> 0])
    /\ IF outcome \in CallReturns
       THEN /\ prov_pc' = "returned"
            /\ prov_result' = [status |-> "returned", kind |-> outcome,
                               call |-> 1]
       ELSE /\ prov_pc' = "raised"
            /\ prov_result' = [status |-> "raised", kind |-> outcome,
                               call |-> 1]
    /\ UNCHANGED <<provider, req_text, retry, attempt, last_exception, delays>>
    /\ UNCHANGED <<chunkVars, genVars, procs, auxVars>>

\* GoogleTTSProvider: audio_data = self._extract_audio(response), outside the
\* wrapper; a response without audio raises ValueError.
ExtractAudio ==
    /\ prov_pc = "extract"
    /\ LET response == api_calls[Len(api_calls)].outcome
       IN IF response = "audio"
          THEN /\ prov_pc' = "returned"
               /\ prov_result' = [status |-> "returned", kind |-> "audio",
                                  call |-> Len(api_calls)]
          ELSE /\ prov_pc' = "raised"
               /\ prov_result' = [status |-> "raised", kind |-> "ValueError",
                                  call |-> Len(api_calls)]
    /\ UNCHANGED <<provider, req_text, retry, attempt, last_exception, api_calls,
                   delays>>
    /\ UNCHANGED <<chunkVars, genVars, procs, auxVars>>

\* generate_single_speaker is called on a provider with a text.
ProvCalled ==
    /\ provider \in Providers
    /\ req_text \in RequestTexts
    /\ retry = GoogleRetry
    /\ prov_pc = "validate"
    /\ attempt = 0
    /\ last_exception = NoException
    /\ api_calls = <<>>
    /\ delays = <<>>
    /\ prov_result = NoException

ProvNext ==
    \/ GenerateSingleSpeaker
    \/ \E outcome \in CallReturns \cup CallRaises : WrappedCall(outcome)
    \/ \E outcome \in CallReturns \cup CallRaises : DirectCall(outcome)
    \/ ExtractAudio

\* One generate_single_speaker call on either provider.
ProvInit == ProvCalled /\ ChunkNotStarted /\ GenNotStarted /\ ProcsNotStarted
    /\ AuxNotStarted
SpecProvider == ProvInit /\ [][ProvNext]_vars

\* A function wrapped by retry_with_backoff(max_retries, base_delay, max_delay)
\* is called.
RetryCalled ==
    /\ provider = "wrapped"
    /\ req_text \in RequestTexts
    /\ retry \in RetryConfigs
    /\ prov_pc = "call"
    /\ attempt = 0
    /\ last_exception = NoException
    /\ api_calls = <<>>
    /\ delays = <<>>
    /\ prov_result = NoException

RetryNext == \E outcome \in CallReturns \cup CallRaises : WrappedCall(outcome)

\* One call of a wrapped function, for every configuration of the wrapper.
RetryInit == RetryCalled /\ ChunkNotStarted /\ GenNotStarted /\ ProcsNotStarted
    /\ AuxNotStarted
SpecRetry == RetryInit /\ [][RetryNext]_vars

---------------------------------------------------------------------------
\* Two processes, each running StreamingGenerator.generate on the same chunk
\* list and output path.  The steps of a call are cut where it reads or writes
\* the output file or the state file; nothing is raised here.

\* The variables of the single-call model that stay at rest meanwhile.
genLocals == <<pc, resume, progress_callback, start_idx, i, audio, stats,
               result, raised, voice_manager, runs, prev_result, resumed_from,
               run_start_output, synth_calls, resumed_voices, synth_voices>>

\* Process p calls generate(chunks, resume=r): the state file is loaded or the
\* old output is unlinked.  Nothing looks for another running process.
ProcStart(p, r) ==
    /\ procs[p].pc = "idle"
    /\ procs' = [procs EXCEPT ![p] =
                    [@ EXCEPT !.pc = LoopHead(StartIndex(r), Total),
                              !.resume = r,
                              !.start_idx = StartIndex(r),
                              !.i = StartIndex(r)]]
    /\ output_file' = OutputAfterStart(r)
    /\ UNCHANGED <<gen_chunks, state_save_interval, state_file>>
    /\ UNCHANGED <<genLocals, chunkVars, provVars, auxVars>>

\* _generate_chunk, normalize_audio and the silence prepended: all local.
ProcSynthesize(p) ==
    /\ procs[p].pc = "synth"
    /\ procs' = [procs EXCEPT ![p] =
                    [@ EXCEPT !.audio = [chunk |-> procs[p].i,
                                         pause |-> PauseBefore(procs[p].i)],
                              !.pc = "append"]]
    /\ UNCHANGED <<gen_chunks, state_save_interval, output_file, state_file>>
    /\ UNCHANGED <<genLocals, chunkVars, provVars, auxVars>>

\* _append_audio up to its read: the file is created with the audio when
\* there is none, else its content is loaded into existing.
ProcAppendRead(p) ==
    /\ procs[p].pc = "append"
    /\ IF ~output_file.exists
       THEN /\ output_file' = [exists |-> TRUE, audio |-> <<procs[p].audio>>]
            /\ procs' = [procs EXCEPT ![p] = [@ EXCEPT !.pc = "save"]]
       ELSE /\ procs' = [procs EXCEPT ![p] =
                            [@ EXCEPT !.existing = output_file.audio,
                                      !.pc = "export"]]
            /\ UNCHANGED output_file
    /\ UNCHANGED <<gen_chunks, state_save_interval, state_file>>
    /\ UNCHANGED <<genLocals, chunkVars, provVars, auxVars>>

\* combined.export(...): the file is rewritten with existing followed by the
\* audio.
ProcAppendExport(p) ==
    /\ procs[p].pc = "export"
    /\ output_file' = [exists |-> TRUE,
                       audio |-> Append(procs[p].existing, procs[p].audio)]
    /\ procs' = [procs EXCEPT ![p] = [@ EXCEPT !.pc = "save"]]
    /\ UNCHANGED <<gen_chunks, state_save_interval, state_file>>
    /\ UNCHANGED <<genLocals, chunkVars, provVars, auxVars>>

\* The stats update, _save_state when should_save, and the step of the loop.
ProcSaveState(p) ==
    /\ procs[p].pc = "save"
    /\ state_file' = IF ShouldSave(procs[p].i)
                     THEN SavedState(procs[p].i + 1, Total)
                     ELSE state_file
    /\ procs' = [procs EXCEPT ![p] =
                    [@ EXCEPT !.i = procs[p].i + 1,
                              !.pc = LoopHead(procs[p].i + 1, Total)]]
    /\ UNCHANGED <<gen_chunks, state_save_interval, output_file>>
    /\ UNCHANGED <<genLocals, chunkVars, provVars, auxVars>>

\* _cleanup_state() and the return.
ProcCleanup(p) ==
    /\ procs[p].pc = "cleanup"
    /\ state_file' = StateAfterCleanup
    /\ procs' = [procs EXCEPT ![p] = [@ EXCEPT !.pc = "done"]]
    /\ UNCHANGED <<gen_chunks, state_save_interval, output_file>>
    /\ UNCHANGED <<genLocals, chunkVars, provVars, auxVars>>

\* Two StreamingGenerators for the same non-empty chunk list and output path,
\* nothing on disk yet.
ProcsConstructed ==
    /\ gen_chunks \in UNION {[1..n -> BOOLEAN] : n \in 1..MaxChunks}
    /\ state_save_interval \in SaveIntervals
    /\ output_file = NoOutput
    /\ state_file = NoState
    /\ pc = "idle"
    /\ resume = FALSE
    /\ progress_callback = FALSE
    /\ start_idx = 0
    /\ i = 0
    /\ audio = <<>>
    /\ stats = [chunks_completed |-> 0, errors |-> <<>>]
    /\ result = "none"
    /\ raised = "none"
    /\ voice_manager = <<>>
    /\ runs = 0
    /\ prev_result = "none"
    /\ resumed_from = -1
    /\ run_start_output = NoOutput
    /\ synth_calls = <<>>
    /\ resumed_voices = <<>>
    /\ synth_voices = <<>>
    /\ ProcsNotStarted

ConcurrentNext ==
    \E p \in Procs :
        \/ \E r \in BOOLEAN : ProcStart(p, r)
        \/ ProcSynthesize(p)
        \/ ProcAppendRead(p)
        \/ ProcAppendExport(p)
        \/ ProcSaveState(p)
        \/ ProcCleanup(p)

\* Each process calls generate() once, at any time, the steps of the two calls
\* interleaved.
ConcurrentInit == ProcsConstructed /\ ChunkNotStarted /\ ProvNotStarted
    /\ AuxNotStarted
SpecConcurrent == ConcurrentInit /\ [][ConcurrentNext]_vars

---------------------------------------------------------------------------
\* crossfade_segments(seg1, seg2, crossfade_ms), on the lengths of the
\* segments in ms, as len() of a pydub segment gives them.

\* "if crossfade_ms < 5": the shortest crossfade applied.
MinCrossfadeMs == 5

\* len(seg1) and len(seg2) of the calls.
SegmentLens == {0, 3, 5, 10, 25, 40}

\* crossfade_ms of the calls.
CrossfadeArgs == {-1, 0, 4, 5, 25, 30}

\* seg1.append(seg2, crossfade=cf) of pydub: plain concatenation for 0, a
\* ValueError for a crossfade longer than either segment, else the two
\* segments overlapped by cf ms.
PydubAppend(len1, len2, cf) ==
    IF cf = 0
    THEN [status |-> "ok", len |-> len1 + len2, crossfade |-> 0]
    ELSE IF cf > len1 \/ cf > len2
    THEN [status |-> "ValueError", len |-> 0, crossfade |-> cf]
    ELSE [status |-> "ok", len |-> len1 + len2 - cf, crossfade |-> cf]

\* ClampedCrossfade with the argument taken as it is.
ClampedCrossfadeUnclamped(cf, len1, len2) == cf

\* crossfade_ms = min(crossfade_ms, len(seg1), len(seg2))
ClampedCrossfade(cf, len1, len2) == Min(cf, Min(len1, len2))

\* crossfade_segments(seg1, seg2, crossfade_ms)
crossfade_segments(len1, len2, cf) ==
    IF cf <= 0 THEN PydubAppend(len1, len2, 0)
    ELSE IF ClampedCrossfade(cf, len1, len2) < MinCrossfadeMs
    THEN PydubAppend(len1, len2, 0)
    ELSE PydubAppend(len1, len2, ClampedCrossfade(cf, len1, len2))

\* The call returns, or raises.
CrossfadeSegments ==
    /\ joined = NotJoined
    /\ joined' = crossfade_segments(seg1_len, seg2_len, crossfade_arg)
    /\ UNCHANGED <<seg1_len, seg2_len, crossfade_arg>>
    /\ UNCHANGED <<chunkVars, genVars, provVars, procs, replayVars, voiceVars,
                   wavVars, moreVars>>

\* crossfade_segments called on two segments.
CrossfadeCalled ==
    /\ seg1_len \in SegmentLens
    /\ seg2_len \in SegmentLens
    /\ crossfade_arg \in CrossfadeArgs
    /\ joined = NotJoined

CrossfadeNext == CrossfadeSegments

CrossfadeInit ==
    CrossfadeCalled /\ ChunkNotStarted /\ GenNotStarted /\ ProvNotStarted
    /\ ProcsNotStarted /\ ReplayNotStarted /\ VoicesNotStarted
    /\ WavNotStarted /\ MoreNotStarted
SpecCrossfade == CrossfadeInit /\ [][CrossfadeNext]_vars

---------------------------------------------------------------------------
\* The audio of the loop body of generate(): the buffer of the provider,
\* normalize_audio, the silence, _append_audio on the WAV file.

\* Chunks appended in one run.
MaxAppends == 4

TARGET_SAMPLE_RATE == 24000
TARGET_CHANNELS == 1
TARGET_SAMPLE_WIDTH == 2

TargetFormat ==
    [frame_rate |-> TARGET_SAMPLE_RATE, channels |-> TARGET_CHANNELS,
     sample_width |-> TARGET_SAMPLE_WIDTH]

\* The defaults of StreamingGenerator.__init__.
pause_ms == 300
chapter_pause_ms == 2000
DefaultCrossfadeMs == 25

\* The formats a provider's AudioSegment declares: the default of the
\* dataclass (Google), that of ElevenLabs, and one of another provider.
ProviderFormats ==
    {[frame_rate |-> 24000, channels |-> 1, sample_width |-> 2],
     [frame_rate |-> 44100, channels |-> 1, sample_width |-> 2],
     [frame_rate |-> 48000, channels |-> 2, sample_width |-> 1]}

\* Lengths, in ms, of the audio of a chunk.
AudioLens == {3, 1000}

\* The longest buffer passed to _append_audio: the longest audio after the
\* longest silence.
MaxSegmentMs == chapter_pause_ms + 1000

\* NormalizedFormat with the frame rate left as declared.
NormalizedFormatKeepsRate(f) ==
    [frame_rate |-> f.frame_rate, channels |-> TARGET_CHANNELS,
     sample_width |-> TARGET_SAMPLE_WIDTH]

\* The format of normalize_audio(audio) for an audio of format f.
NormalizedFormat(f) ==
    [frame_rate |-> IF f.frame_rate # TARGET_SAMPLE_RATE
                    THEN TARGET_SAMPLE_RATE ELSE f.frame_rate,
     channels |-> IF f.channels # TARGET_CHANNELS
                  THEN TARGET_CHANNELS ELSE f.channels,
     sample_width |-> IF f.sample_width # TARGET_SAMPLE_WIDTH
                      THEN TARGET_SAMPLE_WIDTH ELSE f.sample_width]

Max(a, b) == IF a >= b THEN a ELSE b

\* The format pydub gives the sum of two segments: the larger of each
\* parameter.
SyncFormat(f, g) ==
    [frame_rate |-> Max(f.frame_rate, g.frame_rate),
     channels |-> Max(f.channels, g.channels),
     sample_width |-> Max(f.sample_width, g.sample_width)]

\* PydubSegment.silent(duration=..., frame_rate=TARGET_SAMPLE_RATE): mono,
\* 16 bits.
SilentFormat ==
    [frame_rate |-> TARGET_SAMPLE_RATE, channels |-> 1, sample_width |-> 2]

\* audio = self._generate_chunk(chunk): the provider's buffer, declared of
\* format f, converted by convert_raw_to_pydub.
GenerateChunk(f, n) ==
    /\ wav_pc = "synth"
    /\ wav_i < MaxAppends
    /\ wav_audio' = [format |-> f, len |-> n]
    /\ declared' = f
    /\ wav_pc' = "normalize"
    /\ UNCHANGED <<crossfade_ms, wav_file, wav_i, loaded_ms>>
    /\ UNCHANGED <<chunkVars, genVars, provVars, procs, replayVars, voiceVars,
                   fadeVars, moreVars>>

\* audio = normalize_audio(audio)
NormalizeAudio ==
    /\ wav_pc = "normalize"
    /\ wav_audio' = [wav_audio EXCEPT !.format = NormalizedFormat(@)]
    /\ wav_pc' = "silence"
    /\ UNCHANGED <<crossfade_ms, wav_file, wav_i, declared, loaded_ms>>
    /\ UNCHANGED <<chunkVars, genVars, provVars, procs, replayVars, voiceVars,
                   fadeVars, moreVars>>

\* if i > 0: audio = silence + audio, for a chunk whose is_chapter_start is
\* is_chapter.
PrependSilence(is_chapter) ==
    /\ wav_pc = "silence"
    /\ wav_audio' =
          IF wav_i > 0
          THEN [format |-> SyncFormat(SilentFormat, wav_audio.format),
                len |-> (IF is_chapter THEN chapter_pause_ms ELSE pause_ms)
                         + wav_audio.len]
          ELSE wav_audio
    /\ wav_pc' = "append"
    /\ UNCHANGED <<crossfade_ms, wav_file, wav_i, declared, loaded_ms>>
    /\ UNCHANGED <<chunkVars, genVars, provVars, procs, replayVars, voiceVars,
                   fadeVars, moreVars>>

\* The audio _append_audio combines with the existing one: converted to the
\* format of the file when the two differ.
MatchedFormat(existing, f) == IF existing # f THEN existing ELSE f

\* existing = PydubSegment.from_wav(self.output_path): the ms of audio loaded.
LoadedFromWav == wav_file.len

\* self._append_audio(audio, use_crossfade=(i > 0)), and the end of the
\* iteration.
AppendToWav ==
    /\ wav_pc = "append"
    /\ IF ~wav_file.exists
       THEN /\ wav_file' = [exists |-> TRUE, format |-> wav_audio.format,
                            len |-> wav_audio.len]
            /\ loaded_ms' = 0
       ELSE /\ loaded_ms' = LoadedFromWav
            /\ wav_file' =
                  [exists |-> TRUE,
                   format |-> SyncFormat(wav_file.format,
                                 MatchedFormat(wav_file.format,
                                               wav_audio.format)),
                   len |-> IF wav_i > 0 /\ crossfade_ms > 0
                           THEN crossfade_segments(wav_file.len, wav_audio.len,
                                                   crossfade_ms).len
                           ELSE PydubAppend(wav_file.len, wav_audio.len, 0).len]
    /\ wav_i' = wav_i + 1
    /\ wav_pc' = "synth"
    /\ UNCHANGED <<crossfade_ms, wav_audio, declared>>
    /\ UNCHANGED <<chunkVars, genVars, provVars, procs, replayVars, voiceVars,
                   fadeVars, moreVars>>

\* generate() entered without resuming: no output file, the first chunk next.
WavStarted ==
    /\ crossfade_ms \in {0, DefaultCrossfadeMs}
    /\ wav_file = NoWav
    /\ wav_audio = NoAudio
    /\ wav_i = 0
    /\ wav_pc = "synth"
    /\ declared = <<>>
    /\ loaded_ms = 0

WavNext ==
    \/ \E f \in ProviderFormats, n \in AudioLens : GenerateChunk(f, n)
    \/ NormalizeAudio
    \/ \E is_chapter \in BOOLEAN : PrependSilence(is_chapter)
    \/ AppendToWav

WavInit ==
    WavStarted /\ ChunkNotStarted /\ GenNotStarted /\ ProvNotStarted
    /\ ProcsNotStarted /\ ReplayNotStarted /\ VoicesNotStarted
    /\ FadeNotStarted /\ MoreNotStarted
SpecWav == WavInit /\ [][WavNext]_vars

---------------------------------------------------------------------------
\* StreamingGenerator._generate_chunk: the dialogue tuples of a Chunk and the
\* one call made on the provider with them.

\* Most lines in the Chunk handed to _generate_chunk.
MaxRequestLines == 3

RequestTextsOfLines == {<<"H", "i">>, <<"y", "o", ".">>}

\* The lines of the Chunk: speakers of the VoiceManager model.
RequestLines == [speaker : VoiceSpeakers, text : RequestTextsOfLines]

RECURSIVE SeqsUpTo(_, _)
SeqsUpTo(S, n) ==
    IF n = 0 THEN {<<>>}
    ELSE LET shorter == SeqsUpTo(S, n - 1)
         IN shorter \cup {Append(q, x) : q \in shorter, x \in S}

\* " ".join(texts) without the separator.
RECURSIVE CombinedTextNoSeparator(_)
CombinedTextNoSeparator(texts) ==
    IF texts = <<>> THEN <<>>
    ELSE Head(texts) \o CombinedTextNoSeparator(Tail(texts))

\* combined_text = " ".join(d[2] for d in dialogue)
RECURSIVE CombinedText(_)
CombinedText(texts) ==
    IF texts = <<>> THEN <<>>
    ELSE IF Len(texts) = 1 THEN Head(texts)
    ELSE Head(texts) \o <<" ">> \o CombinedText(Tail(texts))

\* unique_speakers = set(line.speaker for line in chunk.lines)
UniqueSpeakers(ls) == {ls[k].speaker : k \in 1..Len(ls)}

\* One element of the list comprehension that builds dialogue:
\* (line.speaker, self.voice_manager.get_voice(line.speaker), line.text),
\* get_voice assigning a voice to a speaker that has none.
BuildDialogue ==
    /\ requests = <<>>
    /\ Len(dialogue) < Len(req_lines)
    /\ LET line == req_lines[Len(dialogue) + 1]
           voice == AssignedVoice(line.speaker, NoVoice)
       IN /\ dialogue' = Append(dialogue, <<line.speaker, voice, line.text>>)
          /\ assignments' = WithVoice(assignments, line.speaker, voice)
          /\ used_voices' = UsedAfterAssign(line.speaker, NoVoice)
    /\ UNCHANGED <<req_lines, requests, voice_calls, last_call, first_voice>>
    /\ UNCHANGED <<chunkVars, genVars, provVars, procs, replayVars, fadeVars,
                   wavVars, groupVars, payVars>>

\* The call on the provider: generate_single_speaker(combined_text, voice)
\* when the Chunk has one speaker, else generate_multi_speaker(dialogue).
SendRequest ==
    /\ requests = <<>>
    /\ Len(dialogue) = Len(req_lines)
    /\ requests' =
          IF Cardinality(UniqueSpeakers(req_lines)) = 1
          THEN <<[kind |-> "single",
                  text |-> CombinedText([k \in 1..Len(dialogue) |->
                                            dialogue[k][3]]),
                  voice |-> dialogue[1][2],
                  dialogue |-> <<>>]>>
          ELSE <<[kind |-> "multi", text |-> <<>>, voice |-> NoVoice,
                  dialogue |-> dialogue]>>
    /\ UNCHANGED <<req_lines, dialogue>>
    /\ UNCHANGED <<chunkVars, genVars, provVars, procs, replayVars, voiceVars,
                   fadeVars, wavVars, groupVars, payVars>>

\* _generate_chunk(chunk) is called on a generator whose VoiceManager is
\* new, or has a manual assignment for one speaker.
RequestCalled ==
    /\ req_lines \in SeqsUpTo(RequestLines, MaxRequestLines)
    /\ dialogue = <<>>
    /\ requests = <<>>
    /\ \/ assignments = <<>> /\ used_voices = {}
       \/ /\ assignments = [s \in {"Narrator"} |-> "Charon"]
          /\ used_voices = {"Charon"}
    /\ voice_calls = 0
    /\ last_call = NoVoiceCall
    /\ first_voice = <<>>

RequestNext ==
    \/ BuildDialogue
    \/ SendRequest

RequestInit ==
    RequestCalled /\ ChunkNotStarted /\ GenNotStarted /\ ProvNotStarted
    /\ ProcsNotStarted /\ ReplayNotStarted /\ FadeNotStarted /\ WavNotStarted
    /\ GroupsNotStarted /\ PayloadNotStarted
SpecRequest == RequestInit /\ [][RequestNext]_vars

---------------------------------------------------------------------------
\* group_dialogue_by_speaker_pairs(lines, max_speakers)
\* (src/tts_generator/splicer.py).  Its lines, max_speakers and
\* current_speakers are the variables of those names; chunk_pc is the
\* position of the call.

\* Longest input handed to group_dialogue_by_speaker_pairs.
MaxGroupLines == 4

\* Values of the max_speakers argument: the provider's limit, one, and values
\* no provider returns but the function accepts.
GroupMaxSpeakers == {-1, 0, 1, 2}

GroupLines == [speaker : {"A", "B", "C"}, text : {<<"H", "i">>}]

\* What the call leaves alone.
groupRestVars == <<max_bytes, max_speakers, chunks, current_lines,
                   current_size, chunk_index, current_is_chapter_start,
                   current_chapter_title>>

\* One iteration of "for line in lines".
GroupLine(line) ==
    /\ chunk_pc = "loop"
    /\ Len(lines) < MaxGroupLines
    /\ lines' = Append(lines, line)
    /\ IF /\ line.speaker \notin current_speakers
          /\ Cardinality(current_speakers) >= max_speakers
       THEN /\ groups' = IF current_group # <<>>
                         THEN Append(groups, current_group) ELSE groups
            /\ current_group' = <<line>>
            /\ current_speakers' = {line.speaker}
       ELSE /\ current_group' = Append(current_group, line)
            /\ current_speakers' = current_speakers \cup {line.speaker}
            /\ UNCHANGED groups
    /\ UNCHANGED <<groupRestVars, chunk_pc>>
    /\ UNCHANGED <<genVars, provVars, procs, replayVars, voiceVars, fadeVars,
                   wavVars, reqVars, payVars>>

\* The end of the input: [] for no line, else the groups with the last one
\* added.
GroupReturn ==
    /\ chunk_pc = "loop"
    /\ groups' = IF current_group # <<>>
                 THEN Append(groups, current_group) ELSE groups
    /\ chunk_pc' = "returned"
    /\ UNCHANGED <<groupRestVars, lines, current_group, current_speakers>>
    /\ UNCHANGED <<genVars, provVars, procs, replayVars, voiceVars, fadeVars,
                   wavVars, reqVars, payVars>>

GroupCalled ==
    /\ max_speakers \in GroupMaxSpeakers
    /\ lines = <<>>
    /\ groups = <<>>
    /\ current_group = <<>>
    /\ current_speakers = {}
    /\ chunk_pc = "loop"
    /\ max_bytes = 0
    /\ chunks = <<>>
    /\ current_lines = <<>>
    /\ current_size = 0
    /\ chunk_index = 0
    /\ current_is_chapter_start = FALSE
    /\ current_chapter_title = None

GroupNext ==
    \/ \E line \in GroupLines : GroupLine(line)
    \/ GroupReturn

GroupInit ==
    GroupCalled /\ GenNotStarted /\ ProvNotStarted /\ ProcsNotStarted
    /\ ReplayNotStarted /\ VoicesNotStarted /\ FadeNotStarted
    /\ WavNotStarted /\ RequestNotStarted /\ PayloadNotStarted
SpecGroups == GroupInit /\ [][GroupNext]_vars

---------------------------------------------------------------------------
\* TextChunker.chunk as run_audiobook_mode configures it, on inputs of
\* hundreds of lines: a line is its speaker, the UTF-8 bytes of its text and
\* whether is_chapter_marker matches it; the buffer is its counters, next to
\* current_speakers and current_size.

\* TextChunker(max_bytes=3500, max_speakers_per_chunk=2, ...)
CliMaxBytes == 3500
CliMaxSpeakers == 2

\* The lines: three speakers with one-byte names; texts of 2 bytes ("Hi") and
\* of 1000 bytes, and a divider ("---").
PayLines ==
    [speaker : {"A", "B", "C"}, text_bytes : {2, 1000}, is_chapter : {FALSE}]
    \cup {[speaker |-> "A", text_bytes |-> 3, is_chapter |-> TRUE]}

\* len(line.speaker.encode('utf-8')) of the one-byte names.
SpeakerBytes(speaker) == 1

\* line_size = len(text bytes) + len(speaker bytes) + 2
PayLineSize(line) == line.text_bytes + SpeakerBytes(line.speaker) + 2

\* needs_new_chunk
PayNeedsNewChunk(line) ==
    IF line.is_chapter /\ pay_lines > 0 THEN TRUE
    ELSE IF /\ line.speaker \notin current_speakers
            /\ Cardinality(current_speakers) >= max_speakers THEN TRUE
    ELSE current_size + PayLineSize(line) > max_bytes /\ pay_lines > 0

\* The buffer as the Chunk appended from it.
PayBuffer ==
    [lines |-> pay_lines, text |-> pay_text, speakers |-> current_speakers,
     size |-> current_size]

\* What the counters stand for, and the chunk index, which they leave out.
payRestVars == <<max_bytes, max_speakers, lines, chunks, current_lines,
                 chunk_index, current_is_chapter_start, current_chapter_title>>

\* One iteration of "for line in lines".
PayChunkLine(line) ==
    /\ chunk_pc = "loop"
    /\ IF PayNeedsNewChunk(line)
       THEN /\ pay_chunk' = PayBuffer
            /\ pay_lines' = 1
            /\ pay_text' = line.text_bytes
            /\ current_speakers' = {line.speaker}
            /\ current_size' = PayLineSize(line)
       ELSE /\ pay_chunk' = NoPayChunk
            /\ pay_lines' = pay_lines + 1
            /\ pay_text' = pay_text + line.text_bytes
            /\ current_speakers' = current_speakers \cup {line.speaker}
            /\ current_size' = current_size + PayLineSize(line)
    /\ UNCHANGED <<payRestVars, chunk_pc>>
    /\ UNCHANGED <<genVars, provVars, procs, replayVars, voiceVars, fadeVars,
                   wavVars, reqVars, groupVars>>

\* The end of the input: the buffer becomes the last Chunk.
PayChunkReturn ==
    /\ chunk_pc = "loop"
    /\ pay_lines > 0
    /\ pay_chunk' = PayBuffer
    /\ chunk_pc' = "returned"
    /\ UNCHANGED <<payRestVars, pay_lines, pay_text, current_speakers,
                   current_size>>
    /\ UNCHANGED <<genVars, provVars, procs, replayVars, voiceVars, fadeVars,
                   wavVars, reqVars, groupVars>>

\* Bytes of what the provider is sent for a Chunk: the texts joined by one
\* space for one speaker, else the "speaker: text" lines joined by newlines.
PayloadBytes(c) ==
    IF Cardinality(c.speakers) = 1
    THEN c.text + (c.lines - 1)
    ELSE c.size + (c.lines - 1)

PayCalled ==
    /\ max_bytes = CliMaxBytes
    /\ max_speakers = CliMaxSpeakers
    /\ pay_lines = 0
    /\ pay_text = 0
    /\ current_speakers = {}
    /\ current_size = 0
    /\ pay_chunk = NoPayChunk
    /\ chunk_pc = "loop"
    /\ lines = <<>>
    /\ chunks = <<>>
    /\ current_lines = <<>>
    /\ chunk_index = 0
    /\ current_is_chapter_start = FALSE
    /\ current_chapter_title = None

PayNext ==
    \/ \E line \in PayLines : PayChunkLine(line)
    \/ PayChunkReturn

PayInit ==
    PayCalled /\ GenNotStarted /\ ProvNotStarted /\ ProcsNotStarted
    /\ ReplayNotStarted /\ VoicesNotStarted /\ FadeNotStarted
    /\ WavNotStarted /\ RequestNotStarted /\ GroupsNotStarted
SpecPayload == PayInit /\ [][PayNext]_vars

---------------------------------------------------------------------------
\* StreamingGenerator.generate with the durations it records: self.stats
\* with its total_duration_ms, the stats saved in the state file, and the
\* len() of each piece appended to the output file.  A call either returns
\* or fails at a chunk's synthesis.

\* generate() calls made on one output path.
MaxDurRuns == 3

\* len(audio) of a synthesized chunk, in ms.
DurAudioLens == {100, 250}

\* Lengths of the chunk list, and values of state_save_interval.
DurChunkCounts == {2, 3}
DurIntervals == {1, 2}

RECURSIVE SumSeq(_)
SumSeq(q) == IF q = <<>> THEN 0 ELSE Head(q) + SumSeq(Tail(q))

\* self.stats as __init__ sets it.
NewStats == [chunks_completed |-> 0, total_duration_ms |-> 0]

NoDurState == [exists |-> FALSE, completed_chunks |-> 0, stats |-> NewStats]

\* The state file _save_state(completed, total) writes: "stats": self.stats.
DurSavedState(completed, st) ==
    [exists |-> TRUE, completed_chunks |-> completed, stats |-> st]

\* What is left out of the calls here.
durRestVars == <<progress_callback, start_idx, audio, raised, voice_manager,
                 prev_result, resumed_from, run_start_output, synth_calls,
                 resumed_voices, synth_voices>>

\* generate(chunks, resume=res) on a StreamingGenerator just constructed
\* (fresh: self.stats as __init__ set it), or on the one of the call before.
DurGenerate(res, fresh) ==
    /\ pc = "idle"
    /\ runs < MaxDurRuns
    /\ fresh \/ runs > 0
    /\ runs' = runs + 1
    /\ resume' = res
    /\ stats' = IF fresh THEN NewStats ELSE stats
    /\ IF res /\ state_file.exists
       THEN /\ i' = state_file.completed_chunks
            /\ UNCHANGED output_file
       ELSE /\ i' = 0
            /\ output_file' = NoOutput
    /\ pc' = LoopHead(i', Total)
    /\ result' = "none"
    /\ UNCHANGED <<gen_chunks, state_save_interval, state_file, durRestVars>>
    /\ UNCHANGED <<chunkVars, provVars, procs, auxVars>>

\* One iteration that raises nothing: the chunk's audio of n ms, the silence
\* before it when i > 0, the append, the stats, the periodic checkpoint.
DurIteration(n) ==
    /\ pc = "synth"
    /\ LET piece == IF i > 0 THEN pause_ms + n ELSE n
           st == [chunks_completed |-> i + 1,
                  total_duration_ms |-> stats.total_duration_ms + piece]
       IN /\ output_file' = [exists |-> TRUE,
                             audio |-> IF output_file.exists
                                       THEN Append(output_file.audio, piece)
                                       ELSE <<piece>>]
          /\ stats' = st
          /\ state_file' =
                IF (i + 1) % state_save_interval = 0 \/ i + 1 = Total
                THEN DurSavedState(i + 1, st)
                ELSE state_file
    /\ i' = i + 1
    /\ pc' = LoopHead(i + 1, Total)
    /\ UNCHANGED <<gen_chunks, state_save_interval, resume, result, runs,
                   durRestVars>>
    /\ UNCHANGED <<chunkVars, provVars, procs, auxVars>>

\* _generate_chunk raises: the handler saves the state at index i and the
\* exception goes to the caller.
DurRaise ==
    /\ pc = "synth"
    /\ state_file' = DurSavedState(i, stats)
    /\ pc' = "idle"
    /\ result' = "failed"
    /\ UNCHANGED <<gen_chunks, state_save_interval, resume, i, stats,
                   output_file, runs, durRestVars>>
    /\ UNCHANGED <<chunkVars, provVars, procs, auxVars>>

\* The loop is over: _cleanup_state() and return.
DurCleanup ==
    /\ pc = "cleanup"
    /\ state_file' = NoDurState
    /\ pc' = "idle"
    /\ result' = "completed"
    /\ UNCHANGED <<gen_chunks, state_save_interval, resume, i, stats,
                   output_file, runs, durRestVars>>
    /\ UNCHANGED <<chunkVars, provVars, procs, auxVars>>

DurConstructed ==
    /\ gen_chunks \in {[k \in 1..n |-> FALSE] : n \in DurChunkCounts}
    /\ state_save_interval \in DurIntervals
    /\ output_file = NoOutput
    /\ state_file = NoDurState
    /\ pc = "idle"
    /\ resume = FALSE
    /\ i = 0
    /\ stats = NewStats
    /\ result = "none"
    /\ runs = 0
    /\ progress_callback = FALSE
    /\ start_idx = 0
    /\ audio = <<>>
    /\ raised = "none"
    /\ voice_manager = <<>>
    /\ prev_result = "none"
    /\ resumed_from = -1
    /\ run_start_output = NoOutput
    /\ synth_calls = <<>>
    /\ resumed_voices = <<>>
    /\ synth_voices = <<>>

DurNext ==
    \/ \E res \in BOOLEAN, fresh \in BOOLEAN : DurGenerate(res, fresh)
    \/ \E n \in DurAudioLens : DurIteration(n)
    \/ DurRaise
    \/ DurCleanup

DurInit ==
    DurConstructed /\ ChunkNotStarted /\ ProvNotStarted /\ ProcsNotStarted
    /\ AuxNotStarted
SpecDurations == DurInit /\ [][DurNext]_vars

---------------------------------------------------------------------------
\* Properties of TextChunker.chunk (checked under SpecChunk).

\* The lines of chunks cs, concatenated in order.
RECURSIVE FlattenLines(_)
FlattenLines(cs) ==
    IF cs = <<>> THEN <<>> ELSE Head(cs).lines \o FlattenLines(Tail(cs))

\* Serialized size of a list of lines: the sum of their line sizes.
RECURSIVE SerializedSize(_)
SerializedSize(ls) ==
    IF ls = <<>> THEN 0
    ELSE Utf8Len(Head(ls).text) + Utf8Len(Head(ls).speaker) + 2
         + SerializedSize(Tail(ls))

\* The distinct speakers of a list of lines.
SpeakersOf(ls) == {ls[k].speaker : k \in 1..Len(ls)}

\* C1: no Chunk that chunk() emits has an empty lines list, whatever the
\* input, max_bytes and max_speakers_per_chunk.
C1_NoEmptyChunk ==
    \A k \in 1..Len(chunks) : chunks[k].lines # <<>>

\* C2: the i-th Chunk returned has index i, counting from 0: no gap and no
\* repeat.
C2_IndicesContiguous ==
    chunk_pc = "returned" =>
        \A k \in 1..Len(chunks) : chunks[k].index = k - 1

\* C2 witness: a call has returned at least three Chunks.
C2_Witness ==
    chunk_pc = "returned" /\ Len(chunks) >= 3

\* C3: the lines of the returned Chunks, concatenated in index order, are
\* exactly the input sequence.
C3_Partition ==
    chunk_pc = "returned" => FlattenLines(chunks) = lines

\* C3 witness: a call has returned a Chunk of two lines followed by a Chunk
\* whose single line alone exceeds max_bytes.
C3_Witness ==
    /\ chunk_pc = "returned"
    /\ max_bytes > 0
    /\ \E k \in 1..Len(chunks) - 1 :
        /\ Len(chunks[k].lines) = 2
        /\ Len(chunks[k + 1].lines) = 1
        /\ SerializedSize(chunks[k + 1].lines) > max_bytes

\* C4: every Chunk's speakers is non-empty, is the set of distinct speakers
\* of its own lines, and has at most max_speakers_per_chunk members.
C4_SpeakersBounded ==
    \A k \in 1..Len(chunks) :
        /\ chunks[k].speakers # {}
        /\ chunks[k].speakers = SpeakersOf(chunks[k].lines)
        /\ Cardinality(chunks[k].speakers) <= max_speakers

\* C5: every returned Chunk of more than one line has a serialized size of at
\* most max_bytes; only a Chunk of exactly one line may exceed it.
C5_MultiLineWithinMaxBytes ==
    chunk_pc = "returned" =>
        \A k \in 1..Len(chunks) :
            Len(chunks[k].lines) > 1 =>
                SerializedSize(chunks[k].lines) <= max_bytes

\* C5 witness: a call has returned a Chunk of several lines filling max_bytes
\* to within one line, and a one-line Chunk larger than max_bytes.
C5_Witness ==
    /\ chunk_pc = "returned"
    /\ max_bytes > 0
    /\ \E k \in 1..Len(chunks) :
        /\ Len(chunks[k].lines) > 1
        /\ SerializedSize(chunks[k].lines) + 5 > max_bytes
    /\ \E k \in 1..Len(chunks) :
        /\ Len(chunks[k].lines) = 1
        /\ SerializedSize(chunks[k].lines) > max_bytes

\* C6: a returned Chunk has is_chapter_start true exactly when its own first
\* line is a chapter marker; chapter_title is that line's trimmed text when
\* is_chapter_start is true and None otherwise.
C6_ChapterStartIsFirstLine ==
    chunk_pc = "returned" =>
        \A k \in 1..Len(chunks) :
            LET c == chunks[k]
                firstIsMarker ==
                    /\ c.lines # <<>>
                    /\ MatchesChapterPattern(Strip(c.lines[1].text))
            IN /\ c.is_chapter_start = firstIsMarker
               /\ c.chapter_title =
                    IF c.is_chapter_start THEN Strip(c.lines[1].text) ELSE None

\* C6 witness: a call has returned a Chunk that starts no chapter and was
\* flushed by a chapter marker, followed by a Chunk that starts a chapter
\* whose title differs from the untrimmed text, and a later Chunk that again
\* starts none.
C6_Witness ==
    /\ chunk_pc = "returned"
    /\ \E k \in 1..Len(chunks) - 2 :
        /\ ~chunks[k].is_chapter_start
        /\ chunks[k + 1].is_chapter_start
        /\ chunks[k + 1].chapter_title # chunks[k + 1].lines[1].text
        /\ ~chunks[k + 2].is_chapter_start
        /\ chunks[k + 2].lines # <<>>

---------------------------------------------------------------------------
\* Properties of StreamingGenerator.generate (checked under Spec).

\* The chunk indices of the audio pieces in the output file, in file order.
OutputChunks ==
    [k \in 1..Len(output_file.audio) |-> output_file.audio[k].chunk]

\* Every chunk index once, in order: 0, 1, ..., len(chunks) - 1.
AllChunksOnce == [k \in 1..Total |-> k - 1]

\* C7: a call with resume=True that finds a state file recording
\* completed_chunks = k synthesizes chunks k, k+1, ... in order and nothing
\* below k, keeps what the output file held when the call was made, and puts
\* after it only audio of chunks from k on.
C7_ResumeSkipsCompleted ==
    resumed_from >= 0 =>
        /\ \A j \in 1..Len(synth_calls) : synth_calls[j] = resumed_from + j - 1
        /\ run_start_output.exists => output_file.exists
        /\ Len(output_file.audio) >= Len(run_start_output.audio)
        /\ SubSeq(output_file.audio, 1, Len(run_start_output.audio))
              = run_start_output.audio
        /\ \A j \in (Len(run_start_output.audio) + 1)..Len(output_file.audio) :
              output_file.audio[j].chunk >= resumed_from

\* C7 witness: a resumed call found completed_chunks >= 1 and an output file,
\* appended to it, and completed.
C7_Witness ==
    /\ resumed_from >= 1
    /\ run_start_output.exists
    /\ Len(synth_calls) >= 1
    /\ Len(output_file.audio) > Len(run_start_output.audio)
    /\ result = "completed"
    /\ pc = "idle"

\* C8: wherever a running generate() can be interrupted, a state file on disk
\* records as completed_chunks the number of audio pieces in the output file.
C8_CheckpointMatchesOutput ==
    (pc \in InterruptPoints /\ state_file.exists) =>
        state_file.completed_chunks = Len(output_file.audio)

\* C9: when a call failed with an exception raised in the loop body and the
\* next call, with resume=True, completes, the output file holds the audio of
\* every chunk exactly once, in index order.
C9_ResumeAfterFailureExactlyOnce ==
    (/\ pc = "idle"
     /\ result = "completed"
     /\ resumed_from >= 0
     /\ prev_result = "failed") =>
        OutputChunks = AllChunksOnce

\* C10: a call that resumes from completed_chunks = k never has an output
\* file that lacks the audio of one of the chunks 0..k-1.
C10_ResumedOutputHasCompleted ==
    (resumed_from >= 0 /\ output_file.exists) =>
        \A j \in 0..(resumed_from - 1) :
            \E k \in 1..Len(output_file.audio) : output_file.audio[k].chunk = j

\* A call of generate() with a non-empty chunk list has been made, and this is
\* its state or the state it left.
CallMade == result \in {"running", "completed", "failed", "interrupted"}

\* Number of pieces in the output file that the call found there and kept.
KeptPieces == IF resumed_from >= 0 THEN Len(run_start_output.audio) ELSE 0

\* Number of pieces the call has appended.
AppendedByCall == Len(output_file.audio) - KeptPieces

\* C11: a call that does not resume (resume=False, or resume=True with no
\* state file) leaves no output file before its first append, and the output
\* file then holds exactly the pieces this call appended, whatever was at
\* output_path before.
C11_FreshStartDiscardsOutput ==
    (CallMade /\ resumed_from = -1) =>
        /\ output_file.exists <=> Len(output_file.audio) >= 1
        /\ Len(output_file.audio) <= Len(synth_calls)
        /\ Len(output_file.audio) >= Len(synth_calls) - 1
        /\ OutputChunks = SubSeq(synth_calls, 1, Len(output_file.audio))

\* C11 witness: resume=True was asked with no state file while an output file
\* of an earlier call was at output_path, and the call completed.
C11_Witness ==
    /\ pc = "idle"
    /\ result = "completed"
    /\ resume
    /\ resumed_from = -1
    /\ run_start_output.exists
    /\ Len(run_start_output.audio) >= 2
    /\ output_file.exists

\* C12: when generate() returns normally, every chunk from start_idx to the
\* last was synthesized and appended by the call and no state file exists; a
\* state file is on disk after a call only when the call did not complete
\* (it raised, was interrupted, or was refused for an empty chunk list).
C12_CompletedLeavesNoState ==
    /\ (pc = "idle" /\ result = "completed") =>
          /\ ~state_file.exists
          /\ Len(synth_calls) = (IF start_idx < Total THEN Total - start_idx ELSE 0)
          /\ AppendedByCall = Len(synth_calls)
          /\ \A j \in 1..Len(synth_calls) :
                /\ synth_calls[j] = start_idx + j - 1
                /\ output_file.audio[KeptPieces + j].chunk = synth_calls[j]
    /\ (pc = "idle" /\ state_file.exists) =>
          result \in {"failed", "interrupted", "rejected"}

\* C12 witness: a call that started at the first of two or more chunks
\* returned normally.
C12_Witness ==
    /\ pc = "idle"
    /\ result = "completed"
    /\ Total >= 2
    /\ Len(synth_calls) = Total
    /\ ~state_file.exists

\* C15: within one call the chunks are synthesized one at a time in
\* increasing index order from start_idx, each once, and the audio of a chunk
\* is in the output file before the next chunk is synthesized.
C15_OneAtATimeInOrder ==
    CallMade =>
        /\ \A j \in 1..Len(synth_calls) : synth_calls[j] = start_idx + j - 1
        /\ AppendedByCall <= Len(synth_calls)
        /\ AppendedByCall >= Len(synth_calls) - 1
        /\ pc = "synth" => AppendedByCall = Len(synth_calls)
        /\ \A j \in 1..AppendedByCall :
              output_file.audio[KeptPieces + j].chunk = synth_calls[j]

\* C15 witness: a call is about to synthesize its second chunk, the first
\* being in the output file.
C15_Witness ==
    /\ pc = "synth"
    /\ Len(synth_calls) >= 1
    /\ AppendedByCall = Len(synth_calls)
    /\ i = start_idx + 1

\* C13: when a statement of the loop body raises an Exception at chunk i,
\* generate() records exactly one error for i, writes a state file with
\* completed_chunks = i and leaves that same exception to its caller, the
\* state file staying on disk.
C13_ErrorSavesStateAndReraises ==
    (pc = "idle" /\ result = "failed") =>
        /\ Len(stats.errors) = 1
        /\ stats.errors[1].chunk = i
        /\ state_file = SavedState(i, Total)
        /\ raised = stats.errors[1].step

\* C14: a call that resumes from a state file synthesizes with the voices
\* recorded in that file's voice_assignments, whatever the VoiceManager of the
\* resuming process holds.
C14_ResumeUsesSavedVoices ==
    (CallMade /\ resumed_from >= 0 /\ synth_voices # <<>>) =>
        \A s \in GenSpeakers : synth_voices[s] = resumed_voices[s]

\* C16: TextChunker.chunk returns no chunk for an empty list of lines, and a
\* generate() call given an empty chunk list raises ValueError without a
\* synthesis call and without touching the output file or the state file.
C16_EmptyInputRejected ==
    /\ [](chunk_pc = "returned" /\ lines = <<>> => chunks = <<>>)
    /\ [][(runs' = runs + 1 /\ gen_chunks' = <<>>) =>
             /\ result' = "rejected"
             /\ raised' = "ValueError"
             /\ pc' = "idle"
             /\ synth_calls' = <<>>
             /\ output_file' = output_file
             /\ state_file' = state_file]_vars

\* C16 witness: generate() was given an empty chunk list while the output file
\* and the state file of an earlier, failed call were on disk.
C16_Witness ==
    /\ result = "rejected"
    /\ chunk_pc = "handed"
    /\ gen_chunks = <<>>
    /\ prev_result = "failed"
    /\ output_file.exists
    /\ state_file.exists

---------------------------------------------------------------------------
\* Properties of the providers and of retry_with_backoff.

\* C17: on every provider a text longer than max_text_length() in UTF-8 bytes
\* is refused with an error before any network call; it is neither sent whole
\* nor truncated, and nothing is retried.
C17_TooLongRejectedBeforeCall ==
    (prov_pc # "rest" /\ Utf8Bytes(req_text) > MaxTextLength(provider)) =>
        /\ api_calls = <<>>
        /\ delays = <<>>
        /\ prov_pc \in {"validate", "raised"}
        /\ prov_pc = "raised" => prov_result.kind = "ValueError"

\* The calls made so far that raised.
FailedCalls == {k \in 1..Len(api_calls) : api_calls[k].outcome \in CallRaises}

\* C18: a function wrapped by retry_with_backoff(max_retries, base_delay,
\* max_delay) is called at most max_retries + 1 times; the first call that
\* returns ends the wrapper with that result; before the retry that follows
\* failed attempt k the wrapper sleeps min(base_delay * 2^k, max_delay); when
\* every attempt failed the wrapper raises the exception of the last one.
C18_RetryWithBackoff ==
    /\ Len(api_calls) <= retry.max_retries + 1
    /\ \A k \in 1..Len(api_calls) :
          /\ api_calls[k].attempt = k - 1
          /\ k < Len(api_calls) => k \in FailedCalls
    /\ Len(delays) = attempt
    /\ \A k \in 1..Len(delays) :
          /\ k \in FailedCalls
          /\ delays[k] = (IF retry.base_delay * (2 ^ (k - 1)) <= retry.max_delay
                          THEN retry.base_delay * (2 ^ (k - 1))
                          ELSE retry.max_delay)
    /\ prov_pc = "call" => Len(api_calls) = attempt
    /\ prov_pc = "returned" =>
          /\ Len(api_calls) \notin FailedCalls
          /\ prov_result = [status |-> "returned",
                            kind |-> api_calls[Len(api_calls)].outcome,
                            call |-> Len(api_calls)]
    /\ prov_pc = "raised" =>
          /\ Len(api_calls) = retry.max_retries + 1
          /\ FailedCalls = 1..Len(api_calls)
          /\ Len(delays) = retry.max_retries
          /\ prov_result = [status |-> "raised",
                            kind |-> api_calls[Len(api_calls)].outcome,
                            call |-> Len(api_calls)]

\* C18 witness: every one of four attempts failed and the wrapper raised,
\* the third sleep having been cut to max_delay.
C18_Witness ==
    /\ prov_pc = "raised"
    /\ retry.max_retries = 3
    /\ Len(api_calls) = 4
    /\ retry.base_delay * 4 > retry.max_delay
    /\ retry.base_delay < retry.max_delay
    /\ delays[3] = retry.max_delay
    /\ delays[1] = retry.base_delay

\* C19: a call that fails for a reason that is not transient (a failed
\* authentication) is not made again: its exception reaches the caller after
\* that one attempt.
C19_NonTransientNotRetried ==
    \A k \in 1..Len(api_calls) :
        api_calls[k].outcome = "auth" =>
            /\ k = 1
            /\ Len(api_calls) = 1
            /\ delays = <<>>
            /\ prov_pc = "raised"
            /\ prov_result = [status |-> "raised", kind |-> "auth", call |-> 1]

---------------------------------------------------------------------------
\* Properties of two processes on one output path.

\* Process p is inside generate().
Running(p) == procs[p].pc \notin {"idle", "done"}

\* C20: two generate() calls on the same output path do not overlap: a call
\* made while another one is running is refused or held back, so that the
\* appends and the state writes of the two never interleave.
C20_OverlappingRunsGuarded ==
    \A p \in Procs, q \in Procs : p # q => ~(Running(p) /\ Running(q))

---------------------------------------------------------------------------
\* Properties of TextChunker.chunk on the examples.

\* chunk() has returned for three 100-byte lines of speaker "A" with
\* max_bytes=150.
ThreeLongLinesChunked ==
    /\ chunk_pc = "returned"
    /\ max_bytes = 150
    /\ Len(lines) = 3
    /\ \A k \in 1..3 : lines[k] \in ExampleLines

\* C21 as stated: three lines of 100 bytes of text each from speaker "A",
\* chunked with max_bytes=150, give exactly 2 Chunks.
C21_ThreeLinesTwoChunks == ThreeLongLinesChunked => Len(chunks) = 2

\* C21 amended: three lines of 100 bytes of text each from speaker "A",
\* chunked with max_bytes=150, give exactly 3 Chunks of one line each, since a
\* line counts 103 bytes and no two of them fit under 150.
C21_ThreeLinesThreeChunks ==
    ThreeLongLinesChunked =>
        /\ Len(chunks) = 3
        /\ \A k \in 1..3 : chunks[k].lines = <<lines[k]>>

\* C21 witness: the example's input x, y, z has been chunked.
C21_Witness ==
    /\ ThreeLongLinesChunked
    /\ lines[1].text[1] = "x"
    /\ lines[2].text[1] = "y"
    /\ lines[3].text[1] = "z"

\* C25: chunk() starts a new Chunk before a line exactly when the buffer is
\* non-empty and the line is a chapter marker, or its speaker is new to a
\* buffer that already holds max_speakers speakers, or its size would push
\* the buffer past max_bytes; and three lines of three distinct speakers with
\* max_speakers=2 and no other trigger give 2 Chunks, the first holding the
\* first two speakers.
C25_BoundaryExactlyWhen ==
    /\ [][(chunk_pc = "loop" /\ lines' # lines) =>
            LET line == lines'[Len(lines')]
            IN (chunks' # chunks) <=>
                 /\ current_lines # <<>>
                 /\ \/ is_chapter_marker(line.text)[1]
                    \/ /\ line.speaker \notin current_speakers
                       /\ Cardinality(current_speakers) >= max_speakers
                    \/ current_size + LineSize(line) > max_bytes]_vars
    /\ [](/\ chunk_pc = "returned"
          /\ max_speakers = 2
          /\ Len(lines) = 3
          /\ Cardinality(SpeakersOf(lines)) = 3
          /\ SerializedSize(lines) <= max_bytes
          /\ \A k \in 1..3 : ~is_chapter_marker(lines[k].text)[1]
          => /\ Len(chunks) = 2
             /\ chunks[1].lines = SubSeq(lines, 1, 2)
             /\ chunks[2].lines = SubSeq(lines, 3, 3))

---------------------------------------------------------------------------
\* Properties of the checkpoints of generate() (checked under Spec).

\* The step is the "if should_save" statement of the loop body, executed
\* without raising.
SaveStep == pc = "save" /\ pc' = "callback"

\* The step is the except block of the loop, entered for an Exception raised
\* by the loop body.
ExceptStep == pc # "idle" /\ result' = "failed"

\* The checkpoint with completed_chunks = c is on disk after the step.
CheckpointWritten(c) ==
    /\ state_file'.exists
    /\ state_file'.completed_chunks = c
    /\ state_file'.total_chunks = Len(gen_chunks)

\* After segment number i + 1 is appended, the checkpoint is written exactly
\* when i + 1 is a multiple of the interval or the last segment.
SavedExactlyOnInterval ==
    SaveStep =>
        IF (i + 1) % state_save_interval = 0 \/ i + 1 = Len(gen_chunks)
        THEN CheckpointWritten(i + 1)
        ELSE state_file' = state_file

Uncounted ==
    Len(output_file.audio)
      - (IF state_file.exists THEN state_file.completed_chunks ELSE 0)

\* C27: at every point of a run, the number of segments appended to the
\* output file but not counted in the checkpoint (0 when there is no state
\* file) is at most state_save_interval - 1.
C27_UncountedBelowInterval ==
    CallMade => Uncounted <= state_save_interval - 1

---------------------------------------------------------------------------
\* Properties of the silences of generate() (checked under Spec).

\* C28: segment 0 of a fresh output is the entire content of a new file, with
\* no silence before it; every segment of index above 0 is preceded by a
\* silence of chapter_pause_ms when its chunk starts a chapter and of pause_ms
\* otherwise, the first segment of a resumed run included.
C28_SilenceBeforeSegments ==
    CallMade =>
        /\ (resumed_from = -1 /\ i = 0 /\ pc = "stats") =>
              output_file = [exists |-> TRUE,
                             audio |-> <<[chunk |-> 0, pause |-> "none"]>>]
        /\ \A k \in 1..Len(output_file.audio) :
              LET a == output_file.audio[k]
              IN IF a.chunk = 0 THEN a.pause = "none"
                 ELSE IF gen_chunks[a.chunk + 1] THEN a.pause = "chapter"
                 ELSE a.pause = "pause"

\* C28 witness: a resumed run whose first segment has an index above 0 and
\* starts a chapter has appended it after the pieces it found.
C28_Witness ==
    /\ resumed_from >= 1
    /\ KeptPieces >= 1
    /\ AppendedByCall = 1
    /\ output_file.audio[KeptPieces + 1].chunk = resumed_from
    /\ output_file.audio[KeptPieces + 1].pause = "chapter"
    /\ output_file.audio[1] = [chunk |-> 0, pause |-> "none"]

---------------------------------------------------------------------------
\* Properties of two TextChunker.chunk calls (checked under SpecTwoCalls).

---------------------------------------------------------------------------
\* Properties of VoiceManager (checked under SpecVoices).

\* C24: once a speaker has a voice, every later assign_voice, with or without
\* an explicit voice, and every later get_voice returns that voice, and a
\* get_voice for a speaker without a voice assigns one.
C24_VoiceStable ==
    /\ DOMAIN assignments = DOMAIN first_voice
    /\ \A s \in DOMAIN first_voice : assignments[s] = first_voice[s]
    /\ last_call.op # "none" =>
          /\ last_call.speaker \in DOMAIN assignments
          /\ last_call.returned = first_voice[last_call.speaker]

\* C24 witness: assign_voice with an explicit voice for a speaker whose voice
\* is another one returned the speaker's voice.
C24_Witness ==
    /\ last_call.op = "assign_voice"
    /\ last_call.voice = "Puck"
    /\ last_call.returned = "Charon"
    /\ assignments[last_call.speaker] = "Charon"

---------------------------------------------------------------------------
\* Properties of crossfade_segments (checked under SpecCrossfade).

\* The overlap C29 states for the call in hand.
StatedOverlap ==
    LET clamped == IF crossfade_arg <= seg1_len /\ crossfade_arg <= seg2_len
                   THEN crossfade_arg
                   ELSE IF seg1_len <= seg2_len THEN seg1_len ELSE seg2_len
    IN IF crossfade_arg <= 0 \/ clamped < 5 THEN 0 ELSE clamped

\* C29: crossfade_segments overlaps the two segments by
\* min(crossfade_ms, len(seg1), len(seg2)), concatenates them without overlap
\* when crossfade_ms <= 0 or the clamped overlap is below 5 ms, and returns a
\* segment of length len(seg1) + len(seg2) - overlap applied.
C29_CrossfadeClamped ==
    joined # NotJoined =>
        /\ joined.status = "ok"
        /\ joined.crossfade = StatedOverlap
        /\ joined.len = seg1_len + seg2_len - StatedOverlap

\* C29 witness: a crossfade longer than the first segment was clamped to its
\* length and applied.
C29_Witness ==
    /\ joined.status = "ok"
    /\ crossfade_arg = 25
    /\ seg1_len = 10
    /\ seg2_len = 40
    /\ joined.crossfade = 10
    /\ joined.len = 40

---------------------------------------------------------------------------
\* Properties of the audio of generate() (checked under SpecWav).

\* C23: the existing audio an append loads is bounded by a small multiple of
\* the size of a chunk's audio (here two of the longest buffers) and does not
\* grow with the number of chunks appended.
C23_AppendIncremental == loaded_ms <= MaxSegmentMs + MaxSegmentMs

\* C30: every buffer passed to _append_audio is 24000 Hz, mono, 16 bits,
\* whatever format the provider declared, and the output file has that format
\* after every append.
C30_FixedFormat ==
    /\ wav_pc = "append" => wav_audio.format = TargetFormat
    /\ wav_file.exists => wav_file.format = TargetFormat

\* C30 witness: a second chunk that the provider declared stereo, 8 bits, at
\* 48000 Hz has been appended to the file.
C30_Witness ==
    /\ wav_i = 2
    /\ wav_pc = "synth"
    /\ declared = [frame_rate |-> 48000, channels |-> 2, sample_width |-> 1]
    /\ wav_file.exists
    /\ wav_file.format = TargetFormat

---------------------------------------------------------------------------
\* Properties of degenerate configurations (checked under SpecConfig).

\* C33: with state_save_interval <= 0, max_speakers_per_chunk <= 0 or
\* max_bytes <= 0 the run is rejected before any synthesis: no provider call,
\* no output write and no checkpoint write happens.
C33_DegenerateConfigRejected ==
    (state_save_interval <= 0 \/ max_speakers <= 0 \/ max_bytes <= 0) =>
        /\ synth_calls = <<>>
        /\ ~output_file.exists
        /\ ~state_file.exists

---------------------------------------------------------------------------
\* Further properties of generate() (checked under Spec).

\* C34: when the checkpoint write of the except block fails, the exception
\* the caller gets is still the one the segment raised, and the error of the
\* segment is in stats["errors"].
C34_HandlerWriteBestEffort ==
    (pc = "idle" /\ result = "failed") =>
        /\ raised \in {"synth", "normalize", "append", "save", "callback"}
        /\ stats.errors # <<>>
        /\ stats.errors[Len(stats.errors)].chunk = i

\* C38: in a run started with resume=False where a checkpoint of an earlier
\* run was on disk, a checkpoint file that is present never records more
\* completed chunks than the run has appended.
C38_NoStaleCheckpoint ==
    (CallMade /\ ~resume /\ state_file.exists) =>
        state_file.completed_chunks <= Len(output_file.audio)

\* C40: a run of generate() over n chunks that has ended is completed, with
\* all n chunks from the start offset appended and no checkpoint left, or
\* failed, with the exception propagated and a checkpoint on disk.
C40_EndsCompletedOrFailed ==
    (pc = "idle" /\ result \in {"completed", "failed"}) =>
        \/ /\ result = "completed"
           /\ ~state_file.exists
           /\ Len(synth_calls) = (IF start_idx < Total THEN Total - start_idx
                                  ELSE 0)
        \/ /\ result = "failed"
           /\ raised # "none"
           /\ state_file.exists

---------------------------------------------------------------------------
\* Further properties of TextChunker.chunk (checked under SpecExample).

\* C36: in the Chunks chunk() returns, a line that is a chapter marker is the
\* first line of its Chunk, and that Chunk has is_chapter_start set.
C36_MarkerIsFirstLine ==
    chunk_pc = "returned" =>
        \A k \in 1..Len(chunks) :
            \A j \in 1..Len(chunks[k].lines) :
                is_chapter_marker(chunks[k].lines[j].text)[1] =>
                    /\ j = 1
                    /\ chunks[k].is_chapter_start

\* C36 witness: a chapter marker that came second in the input, after a line
\* of the same speaker small enough to share a Chunk with it, starts the
\* second Chunk.
C36_Witness ==
    /\ chunk_pc = "returned"
    /\ Len(lines) >= 2
    /\ Len(chunks) >= 2
    /\ is_chapter_marker(lines[2].text)[1]
    /\ ~is_chapter_marker(lines[1].text)[1]
    /\ lines[1].speaker = lines[2].speaker
    /\ SerializedSize(SubSeq(lines, 1, 2)) <= max_bytes
    /\ chunks[1].lines = <<lines[1]>>
    /\ chunks[2].lines[1] = lines[2]
    /\ chunks[2].is_chapter_start


---------------------------------------------------------------------------
\* A response without audio (checked under SpecProvider).

---------------------------------------------------------------------------
\* The request of a Chunk (checked under SpecRequest).

\* Bytes of the texts of the first n lines.
RECURSIVE TextLenOfFirst(_, _)
TextLenOfFirst(ls, n) ==
    IF n = 0 THEN 0 ELSE TextLenOfFirst(ls, n - 1) + Len(ls[n].text)

\* text is the texts of ls in order with exactly one space between two of
\* them.
SpaceJoined(text, ls) ==
    /\ Len(text) = TextLenOfFirst(ls, Len(ls)) + Len(ls) - 1
    /\ \A k \in 1..Len(ls) :
          LET from == TextLenOfFirst(ls, k - 1) + (k - 1)
          IN /\ SubSeq(text, from + 1, from + Len(ls[k].text)) = ls[k].text
             /\ k > 1 => text[from] = " "

\* C31: _generate_chunk makes one call on the provider per Chunk: with one
\* distinct speaker a single-speaker call whose text is the line texts in
\* order joined by one space and whose voice is that speaker's, otherwise a
\* multi-speaker call carrying the (speaker, voice, text) triples in line
\* order.
C31_OneRequestPerChunk ==
    /\ Len(requests) <= 1
    /\ Len(requests) = 1 =>
          LET r == requests[1]
          IN IF Cardinality({req_lines[k].speaker : k \in 1..Len(req_lines)}) = 1
             THEN /\ r.kind = "single"
                  /\ SpaceJoined(r.text, req_lines)
                  /\ r.voice = assignments[req_lines[1].speaker]
             ELSE /\ r.kind = "multi"
                  /\ Len(r.dialogue) = Len(req_lines)
                  /\ \A k \in 1..Len(req_lines) :
                        r.dialogue[k] = <<req_lines[k].speaker,
                                          assignments[req_lines[k].speaker],
                                          req_lines[k].text>>

\* A single-speaker call was made for a Chunk of three lines.
C31_Witness ==
    /\ Len(requests) = 1
    /\ requests[1].kind = "single"
    /\ Len(req_lines) = 3
    /\ requests[1].text = <<"H", "i", " ", "y", "o", ".", " ", "H", "i">>

\* A multi-speaker call was made for a Chunk of two speakers.
C31_WitnessMulti ==
    /\ Len(requests) = 1
    /\ requests[1].kind = "multi"
    /\ Len(requests[1].dialogue) = 3
    /\ requests[1].dialogue[1][1] # requests[1].dialogue[2][1]


---------------------------------------------------------------------------
\* The groups of group_dialogue_by_speaker_pairs (checked under SpecGroups).

RECURSIVE FlattenGroups(_)
FlattenGroups(gs) ==
    IF gs = <<>> THEN <<>> ELSE Head(gs) \o FlattenGroups(Tail(gs))

\* C35: every group returned holds at most max_speakers unique speakers and
\* is not empty, and the groups in order give back the input.
C35_GroupsWithinMaxSpeakers ==
    chunk_pc = "returned" =>
        /\ \A g \in 1..Len(groups) :
              /\ groups[g] # <<>>
              /\ Cardinality({groups[g][k].speaker : k \in 1..Len(groups[g])})
                     <= max_speakers
        /\ FlattenGroups(groups) = lines

\* The same for a max_speakers of at least one.
GroupsWithinPositiveMaxSpeakers ==
    max_speakers >= 1 => C35_GroupsWithinMaxSpeakers


---------------------------------------------------------------------------
\* The request payload of a Chunk (checked under SpecPayload).

\* C37: with max_bytes = 3500, the payload of every Chunk of more than one
\* line is within the 4000 bytes GoogleTTSProvider accepts.
C37_PayloadWithinProviderLimit ==
    pay_chunk.lines > 1 => PayloadBytes(pay_chunk) <= GoogleMaxTextLength

\* The same for the Chunks of at most 500 lines, and for those of one
\* speaker.
PayloadOfFewLinesWithinLimit ==
    (pay_chunk.lines > 1
        /\ (pay_chunk.lines <= 500 \/ Cardinality(pay_chunk.speakers) = 1)) =>
        PayloadBytes(pay_chunk) <= GoogleMaxTextLength


---------------------------------------------------------------------------
\* The recorded durations (checked under SpecDurations).

\* A checkpoint written by a resumed call records no less audio than the
\* checkpoint it replaces.
CheckpointDurationKept ==
    (resume' /\ state_file.exists /\ state_file'.exists) =>
        state_file'.stats.total_duration_ms >=
            state_file.stats.total_duration_ms

\* When a call completes, its stats count every piece of the output file.
CompletedDurationCountsOutput ==
    (pc = "cleanup" /\ pc' = "idle" /\ result' = "completed") =>
        stats'.total_duration_ms = SumSeq(output_file'.audio)

\* C39: across a failed call and the call that resumes it, total_duration_ms
\* never decreases from one checkpoint to the next, and at completion
\* stats['total_duration_ms'] accounts for every segment of the output.
C39_DurationAccumulatesAcrossResume ==
    [][CheckpointDurationKept /\ CompletedDurationCountsOutput]_vars

\* The same within the first call made on a new generator.
DurationAccumulatesInFirstCall ==
    [][runs' = 1 =>
           (CheckpointDurationKept /\ CompletedDurationCountsOutput)]_vars

===========================================================================
